---- MODULE Spec2Model ----
(***************************************************************************)
(* irrpoly: the parallel test pipeline (include/irrpoly/pipeline.hpp) and  *)
(* the irreducibility tests over GF(p) (include/irrpoly/gfcheck.hpp with   *)
(* gfpoly.hpp and gf.hpp).                                                 *)
(*                                                                         *)
(* Pipeline part.  One coordinator thread (the caller of pipe() and of the *)
(* destructor) and one worker thread per pod.  A critical section that     *)
(* touches only data protected by the mutex it holds is one step; lock     *)
(* acquisition is the guard of that step.  A condition variable is the     *)
(* flag "a waiter has been notified": notify_one with no waiter is lost.   *)
(***************************************************************************)
EXTENDS Integers, Sequences, FiniteSets, TLC

\* Largest constructor argument n that is modelled (n - 1 pods when n > 1).
MaxN == 3
\* Number of candidates input() can deliver over the life of the pipeline.
MaxInputs == 5
\* Number of pipe() calls on one pipeline object.
MaxRuns == 2

VARIABLES
    n,            \* the constructor argument
    m_pods,       \* number of pods (worker threads) built by the constructor
    s_mutex,      \* owner of the shared mutex: "free", "pipe" or a pod thread
    s_cond,       \* TRUE: the waiter on the shared condvar has been notified
    m_mutex,      \* per pod, owner of the private mutex: "free" or its thread
    m_cond,       \* per pod, TRUE: the waiter on m_cond has been notified
    m_busy,       \* per pod
    m_terminate,  \* per pod
    m_val,        \* per pod, optional input (None = empty)
    m_res,        \* per pod, optional result (None = empty)
    wpc,          \* per pod, position of the worker thread in execute()
    pc,           \* position of the coordinator thread
    i,            \* the coordinator's loop index (pod number)
    input,        \* value returned by in() and not yet stored
    result,       \* the local optional result of the single-threaded loop
    strict,       \* the strict argument of the current pipe() call
    stopped,      \* callback has returned true in the current pipe() call
    runs,         \* pipe() calls that have returned
    nin,          \* calls of in() so far (candidates are numbered 1, 2, ...)
    run_in,       \* value of nin when the current pipe() call started
    loop_cb,      \* callback invocations of the current call before "end:"
    held,         \* pods holding an unreported pair when callback returned true
    cb,           \* per candidate, number of times it was passed to callback
    chk,          \* per candidate, number of times check ran on it
    field,        \* base of the field of the polynomial under test
    poly,         \* m_data of the polynomial under test
    verdict,      \* per irreducibility test, its outcome ("" = not run)
    primitive,    \* outcome of is_primitive_definition ("" = not run)
    check,        \* the function built by make_check_func (<<>> = none)
    optres,       \* the std::optional res handed to check (<<>> = empty)
    called,       \* the tests that check has called
    other,        \* m_data of a second polynomial
    arg,          \* the integer argument of the last call
    op,           \* the function or operator called last ("" = none)
    out,          \* what the last call returned or threw
    made,         \* how the last make_gf call ended ("" = none yet)
    num,          \* the stored residue of the field element num
    stream        \* the text held by the stream that a polynomial is read from

pvars == <<n, m_pods, s_mutex, s_cond, m_mutex, m_cond, m_busy, m_terminate,
           m_val, m_res, wpc, pc, i, input, result, strict, stopped, runs, nin,
           run_in, loop_cb, held, cb, chk>>

cvars == <<primitive, check, optres, called>>
avars == <<other, arg, op, out>>
gvars == <<made, num, stream>>
xvars == <<cvars, avars, gvars>>
fvars == <<field, poly, verdict, xvars>>

\* std::optional without a value.
None == 0

Pods == 1..m_pods

\* the name of the thread of pod w, as a mutex owner
thread(w) == "pod" \o ToString(w)
Candidates == 1..MaxInputs
\* The payload: the result check computes for candidate v.
m_cf(v) == MaxInputs + v

\* input_fn: the next candidate of the stream.
in == nin + 1

RECURSIVE SumOver(_, _)
SumOver(f, S) ==
    IF S = {} THEN 0
    ELSE LET x == CHOOSE y \in S : TRUE IN f[x] + SumOver(f, S \ {x})

Min(S) == CHOOSE x \in S : \A y \in S : x <= y

\* mutant: the constructor forgets --n and builds a pod for n = 1 as well
pipeline_nodec(a) == IF a > 0 THEN a ELSE 0

\* pipeline::pipeline: n - 1 pods when n > 1, none otherwise.
pipeline(a) == IF a > 1 THEN a - 1 ELSE 0

\* pipeline::pod::is_busy
is_busy(w) == m_busy[w]

\* pipeline::countBusy
countBusy == Cardinality({w \in Pods : is_busy(w)})

\* mutant: the dispatch loop without "if (is_busy()) continue"
IdleAfter_all(k) == {w \in Pods : w > k}

\* pods from which the dispatch loop, past index k, still has to report
IdleAfter(k) == {w \in Pods : w > k /\ ~is_busy(w)}

\* pods the drain loop, past index k, still has to report
PairAfter(k) == {w \in Pods : w > k /\ m_val[w] # None /\ m_res[w] # None}

hvars == <<nin, run_in, loop_cb, held, cb, chk>>
podvars == <<m_busy, m_terminate, m_val, m_res>>
syncvars == <<s_mutex, s_cond, m_mutex, m_cond>>

PInit ==
    /\ n \in 0..MaxN
    /\ m_pods = pipeline(n)
    /\ s_mutex = "free"
    /\ s_cond = FALSE
    /\ m_mutex = [w \in 1..pipeline(n) |-> "free"]
    /\ m_cond = [w \in 1..pipeline(n) |-> FALSE]
    /\ m_busy = [w \in 1..pipeline(n) |-> FALSE]
    /\ m_terminate = [w \in 1..pipeline(n) |-> FALSE]
    /\ m_val = [w \in 1..pipeline(n) |-> None]
    /\ m_res = [w \in 1..pipeline(n) |-> None]
    /\ wpc = [w \in 1..pipeline(n) |-> "start"]
    /\ pc = "idle"
    /\ i = 1
    /\ input = None
    /\ result = None
    /\ strict = TRUE
    /\ stopped = FALSE
    /\ runs = 0
    /\ nin = 0
    /\ run_in = 0
    /\ loop_cb = 0
    /\ held = 0
    /\ cb = [c \in Candidates |-> 0]
    /\ chk = [c \in Candidates |-> 0]

(***************************************************************************)
(* pod::execute, the worker thread                                         *)
(***************************************************************************)
\* std::unique_lock lk(m_mutex) at the top of execute()
execute_lock(w) ==
    /\ wpc[w] = "start"
    /\ m_mutex[w] = "free"
    /\ m_mutex' = [m_mutex EXCEPT ![w] = thread(w)]
    /\ wpc' = [wpc EXCEPT ![w] = "loop"]
    /\ UNCHANGED <<n, m_pods, s_mutex, s_cond, m_cond, podvars, pc, i, input,
                   result, strict, stopped, runs, hvars>>
    /\ UNCHANGED fvars

\* mutant: lk is unlocked around the call of m_cf
execute_loop_unlocked(w) ==
    /\ wpc[w] = "loop"
    /\ IF m_terminate[w]
       THEN /\ wpc' = [wpc EXCEPT ![w] = "exited"]
            /\ m_mutex' = [m_mutex EXCEPT ![w] = "free"]
            /\ UNCHANGED m_cond
       ELSE IF ~(m_busy[w] \/ m_terminate[w])
       THEN /\ wpc' = [wpc EXCEPT ![w] = "wait"]
            /\ m_mutex' = [m_mutex EXCEPT ![w] = "free"]
            /\ m_cond' = [m_cond EXCEPT ![w] = FALSE]
       ELSE /\ wpc' = [wpc EXCEPT ![w] = "check"]
            /\ m_mutex' = [m_mutex EXCEPT ![w] = "free"]
            /\ UNCHANGED m_cond
    /\ UNCHANGED <<n, m_pods, s_mutex, s_cond, podvars, pc, i, input, result,
                   strict, stopped, runs, hvars>>
    /\ UNCHANGED fvars

\* the loop head: leave on m_terminate, wait when not busy, else call m_cf
execute_loop(w) ==
    /\ wpc[w] = "loop"
    /\ IF m_terminate[w]
       THEN /\ wpc' = [wpc EXCEPT ![w] = "exited"]
            /\ m_mutex' = [m_mutex EXCEPT ![w] = "free"]
            /\ UNCHANGED m_cond
       ELSE IF ~(m_busy[w] \/ m_terminate[w])
       THEN /\ wpc' = [wpc EXCEPT ![w] = "wait"]
            /\ m_mutex' = [m_mutex EXCEPT ![w] = "free"]
            /\ m_cond' = [m_cond EXCEPT ![w] = FALSE]
       ELSE /\ wpc' = [wpc EXCEPT ![w] = "check"]
            /\ UNCHANGED <<m_mutex, m_cond>>
    /\ UNCHANGED <<n, m_pods, s_mutex, s_cond, podvars, pc, i, input, result,
                   strict, stopped, runs, hvars>>
    /\ UNCHANGED fvars

\* mutant: the worker hands the pair to callback itself after the check
execute_check_report(w) ==
    /\ wpc[w] = "check"
    /\ IF m_val[w] = None
       THEN /\ wpc' = [wpc EXCEPT ![w] = "bad_optional_access"]
            /\ UNCHANGED <<m_res, chk, cb>>
       ELSE /\ m_res' = [m_res EXCEPT ![w] = m_cf(m_val[w])]
            /\ chk' = [chk EXCEPT ![m_val[w]] = @ + 1]
            /\ cb' = [cb EXCEPT ![m_val[w]] = @ + 1]
            /\ wpc' = [wpc EXCEPT ![w] = "lock_shared"]
    /\ UNCHANGED <<n, m_pods, syncvars, m_busy, m_terminate, m_val, pc, i,
                   input, result, strict, stopped, runs, nin, run_in, loop_cb,
                   held>>
    /\ UNCHANGED fvars

\* m_cf(m_val.value(), m_res) returns: the result slot is filled
execute_check(w) ==
    /\ wpc[w] = "check"
    /\ IF m_val[w] = None
       THEN /\ wpc' = [wpc EXCEPT ![w] = "bad_optional_access"]
            /\ UNCHANGED <<m_res, chk>>
       ELSE /\ m_res' = [m_res EXCEPT ![w] = m_cf(m_val[w])]
            /\ chk' = [chk EXCEPT ![m_val[w]] = @ + 1]
            /\ wpc' = [wpc EXCEPT ![w] = "lock_shared"]
    /\ UNCHANGED <<n, m_pods, syncvars, m_busy, m_terminate, m_val, pc, i,
                   input, result, strict, stopped, runs, nin, run_in, loop_cb,
                   held, cb>>
    /\ UNCHANGED fvars

\* std::lock_guard lg(*s_mutex), taken while lk still holds m_mutex
execute_lock_shared(w) ==
    /\ wpc[w] = "lock_shared"
    /\ s_mutex = "free"
    /\ s_mutex' = thread(w)
    /\ wpc' = [wpc EXCEPT ![w] = "notify"]
    /\ UNCHANGED <<n, m_pods, s_cond, m_mutex, m_cond, podvars, pc, i, input,
                   result, strict, stopped, runs, hvars>>
    /\ UNCHANGED fvars

\* mutant: m_busy is cleared but the shared condvar is not notified
execute_notify_silent(w) ==
    /\ wpc[w] = "notify"
    /\ m_busy' = [m_busy EXCEPT ![w] = FALSE]
    /\ s_mutex' = "free"
    /\ wpc' = [wpc EXCEPT ![w] = "loop"]
    /\ UNCHANGED <<n, m_pods, s_cond, m_mutex, m_cond, m_terminate, m_val,
                   m_res, pc, i, input, result, strict, stopped, runs, hvars>>
    /\ UNCHANGED fvars

\* m_busy = false; s_cond->notify_one(); and lg leaves scope
execute_notify(w) ==
    /\ wpc[w] = "notify"
    /\ m_busy' = [m_busy EXCEPT ![w] = FALSE]
    /\ s_cond' = IF pc \in {"wait_idle", "wait_end"} THEN TRUE ELSE s_cond
    /\ s_mutex' = "free"
    /\ wpc' = [wpc EXCEPT ![w] = "loop"]
    /\ UNCHANGED <<n, m_pods, m_mutex, m_cond, m_terminate, m_val, m_res, pc,
                   i, input, result, strict, stopped, runs, hvars>>
    /\ UNCHANGED fvars

\* m_cond.wait(lk) returns after a notify_one: the private mutex is retaken
execute_wake(w) ==
    /\ wpc[w] = "wait"
    /\ m_cond[w]
    /\ m_mutex[w] = "free"
    /\ m_mutex' = [m_mutex EXCEPT ![w] = thread(w)]
    /\ m_cond' = [m_cond EXCEPT ![w] = FALSE]
    /\ wpc' = [wpc EXCEPT ![w] = "loop"]
    /\ UNCHANGED <<n, m_pods, s_mutex, s_cond, podvars, pc, i, input, result,
                   strict, stopped, runs, hvars>>
    /\ UNCHANGED fvars

\* m_cond.wait(lk) returns spuriously
execute_spurious(w) ==
    /\ wpc[w] = "wait"
    /\ ~m_cond[w]
    /\ m_mutex[w] = "free"
    /\ m_mutex' = [m_mutex EXCEPT ![w] = thread(w)]
    /\ wpc' = [wpc EXCEPT ![w] = "loop"]
    /\ UNCHANGED <<n, m_pods, s_mutex, s_cond, m_cond, podvars, pc, i, input,
                   result, strict, stopped, runs, hvars>>
    /\ UNCHANGED fvars

(***************************************************************************)
(* pod methods called by the coordinator, each under the pod's m_mutex     *)
(***************************************************************************)
\* pod::set_data: store the input, reset the result, busy = true, notify
set_data(w, v) ==
    /\ m_mutex[w] = "free"
    /\ m_val' = [m_val EXCEPT ![w] = v]
    /\ m_res' = [m_res EXCEPT ![w] = None]
    /\ m_busy' = [m_busy EXCEPT ![w] = TRUE]
    /\ m_cond' = [m_cond EXCEPT ![w] = (wpc[w] = "wait") \/ @]
    /\ UNCHANGED <<m_mutex, m_terminate>>

\* pod::clear: empty both slots, busy = false
clear(w) ==
    /\ m_mutex[w] = "free"
    /\ m_val' = [m_val EXCEPT ![w] = None]
    /\ m_res' = [m_res EXCEPT ![w] = None]
    /\ m_busy' = [m_busy EXCEPT ![w] = FALSE]
    /\ UNCHANGED <<m_mutex, m_cond, m_terminate>>

\* mutant: the flag is set but the private condvar is not notified
terminate_silent(w) ==
    /\ m_mutex[w] = "free"
    /\ m_terminate' = [m_terminate EXCEPT ![w] = TRUE]
    /\ UNCHANGED <<m_mutex, m_cond, m_busy, m_val, m_res>>

\* pod::terminate: set the flag and notify the private condvar
terminate(w) ==
    /\ m_mutex[w] = "free"
    /\ m_terminate' = [m_terminate EXCEPT ![w] = TRUE]
    /\ m_cond' = [m_cond EXCEPT ![w] = (wpc[w] = "wait") \/ @]
    /\ UNCHANGED <<m_mutex, m_busy, m_val, m_res>>

\* callback_fn may answer false only while the stream can still deliver
callback_fn(r) == r \/ nin < MaxInputs

\* pipe() returns: the unique_lock on s_mutex (if taken) is released
Return ==
    /\ pc' = "idle"
    /\ runs' = runs + 1
    /\ s_mutex' = "free"

(***************************************************************************)
(* pipeline::pipe, the coordinator thread                                  *)
(***************************************************************************)
\* a call pipe(in, pl, bk, st)
pipe(st) ==
    /\ pc = "idle"
    /\ runs < MaxRuns
    /\ nin + (IF m_pods = 0 THEN 1 ELSE m_pods) <= MaxInputs
    /\ strict' = st
    /\ stopped' = FALSE
    /\ run_in' = nin
    /\ loop_cb' = 0
    /\ held' = 0
    /\ pc' = IF m_pods = 0 THEN "s_input" ELSE "lock"
    /\ UNCHANGED <<n, m_pods, syncvars, podvars, wpc, i, input, result, runs,
                   nin, cb, chk>>
    /\ UNCHANGED fvars

\* m_pods.empty(): auto input = in();
serial_input ==
    /\ pc = "s_input"
    /\ nin' = nin + 1
    /\ input' = in
    /\ result' = None
    /\ pc' = "s_check"
    /\ UNCHANGED <<n, m_pods, syncvars, podvars, wpc, i, strict, stopped, runs,
                   run_in, loop_cb, held, cb, chk>>
    /\ UNCHANGED fvars

\* pl(input, result);
serial_check ==
    /\ pc = "s_check"
    /\ result' = m_cf(input)
    /\ chk' = [chk EXCEPT ![input] = @ + 1]
    /\ pc' = "s_callback"
    /\ UNCHANGED <<n, m_pods, syncvars, podvars, wpc, i, input, strict,
                   stopped, runs, nin, run_in, loop_cb, held, cb>>
    /\ UNCHANGED fvars

\* if (bk(input, result.value())) return;
serial_callback ==
    /\ pc = "s_callback"
    /\ \E r \in BOOLEAN :
        /\ callback_fn(r)
        /\ cb' = [cb EXCEPT ![input] = @ + 1]
        /\ loop_cb' = loop_cb + 1
        /\ IF r
           THEN /\ stopped' = TRUE
                /\ Return
           ELSE /\ pc' = "s_input"
                /\ UNCHANGED <<stopped, runs, s_mutex>>
    /\ UNCHANGED <<n, m_pods, s_cond, m_mutex, m_cond, podvars, wpc, i, input,
                   result, strict, nin, run_in, held, chk>>
    /\ UNCHANGED fvars

\* std::unique_lock lk(*s_mutex);
pipe_lock ==
    /\ pc = "lock"
    /\ s_mutex = "free"
    /\ s_mutex' = "pipe"
    /\ i' = 1
    /\ pc' = "seed_input"
    /\ UNCHANGED <<n, m_pods, s_cond, m_mutex, m_cond, podvars, wpc, input,
                   result, strict, stopped, runs, hvars>>
    /\ UNCHANGED fvars

\* the seeding loop: sl->set_payload(pl); and the argument in() of set_data
pipe_seed_input ==
    /\ pc = "seed_input"
    /\ nin' = nin + 1
    /\ input' = in
    /\ pc' = "seed_set_data"
    /\ UNCHANGED <<n, m_pods, syncvars, podvars, wpc, i, result, strict,
                   stopped, runs, run_in, loop_cb, held, cb, chk>>
    /\ UNCHANGED fvars

\* mutant: the seeding loop leaves a pod that still holds a pair as it is
pipe_seed_set_data_keep ==
    /\ pc = "seed_set_data"
    /\ IF m_val[i] # None
       THEN UNCHANGED <<m_mutex, m_cond, podvars>>
       ELSE set_data(i, input)
    /\ IF i < m_pods
       THEN /\ i' = i + 1
            /\ pc' = "seed_input"
       ELSE /\ i' = 1
            /\ pc' = "await"
    /\ UNCHANGED <<n, m_pods, s_mutex, s_cond, wpc, input, result, strict,
                   stopped, runs, hvars>>
    /\ UNCHANGED fvars

\* the seeding loop: sl->set_data(...)
pipe_seed_set_data ==
    /\ pc = "seed_set_data"
    /\ set_data(i, input)
    /\ IF i < m_pods
       THEN /\ i' = i + 1
            /\ pc' = "seed_input"
       ELSE /\ i' = 1
            /\ pc' = "await"
    /\ UNCHANGED <<n, m_pods, s_mutex, s_cond, wpc, input, result, strict,
                   stopped, runs, hvars>>
    /\ UNCHANGED fvars

\* while (countBusy() == m_pods.size()) s_cond->wait(lk); then the first idle pod
pipe_await ==
    /\ pc = "await"
    /\ IF countBusy = m_pods
       THEN /\ s_mutex' = "free"
            /\ s_cond' = FALSE
            /\ pc' = "wait_idle"
            /\ UNCHANGED i
       ELSE /\ i' = Min(IdleAfter(0))
            /\ pc' = "callback"
            /\ UNCHANGED <<s_mutex, s_cond>>
    /\ UNCHANGED <<n, m_pods, m_mutex, m_cond, podvars, wpc, input, result,
                   strict, stopped, runs, hvars>>
    /\ UNCHANGED fvars

\* s_cond->wait(lk) returns after a notify_one: the shared mutex is retaken
pipe_wake ==
    /\ pc \in {"wait_idle", "wait_end"}
    /\ s_cond
    /\ s_mutex = "free"
    /\ s_mutex' = "pipe"
    /\ s_cond' = FALSE
    /\ pc' = IF pc = "wait_idle" THEN "await" ELSE "await_end"
    /\ UNCHANGED <<n, m_pods, m_mutex, m_cond, podvars, wpc, i, input, result,
                   strict, stopped, runs, hvars>>
    /\ UNCHANGED fvars

\* s_cond->wait(lk) returns spuriously
pipe_spurious ==
    /\ pc \in {"wait_idle", "wait_end"}
    /\ ~s_cond
    /\ s_mutex = "free"
    /\ s_mutex' = "pipe"
    /\ pc' = IF pc = "wait_idle" THEN "await" ELSE "await_end"
    /\ UNCHANGED <<n, m_pods, s_cond, m_mutex, m_cond, podvars, wpc, i, input,
                   result, strict, stopped, runs, hvars>>
    /\ UNCHANGED fvars

\* mutant: the answer true does not leave the dispatch loop
pipe_callback_nostop ==
    /\ pc = "callback"
    /\ m_val[i] # None /\ m_res[i] # None
    /\ \E r \in BOOLEAN :
        /\ cb' = [cb EXCEPT ![m_val[i]] = @ + 1]
        /\ loop_cb' = loop_cb + 1
        /\ stopped' = (stopped \/ r)
        /\ held' = held
        /\ pc' = IF nin < MaxInputs THEN "input" ELSE "clear"
    /\ UNCHANGED <<n, m_pods, syncvars, podvars, wpc, i, input, result, strict,
                   runs, nin, run_in, chk>>
    /\ UNCHANGED fvars

\* if (bk(m_pods[i]->get_data().value(), m_pods[i]->get_result().value()))
pipe_callback ==
    /\ pc = "callback"
    /\ IF m_val[i] = None \/ m_res[i] = None
       THEN /\ pc' = "bad_optional_access"
            /\ UNCHANGED <<cb, loop_cb, stopped, held>>
       ELSE \E r \in BOOLEAN :
            /\ callback_fn(r)
            /\ cb' = [cb EXCEPT ![m_val[i]] = @ + 1]
            /\ loop_cb' = loop_cb + 1
            /\ stopped' = r
            /\ held' = IF r THEN Cardinality({w \in Pods : w # i /\ m_val[w] # None})
                       ELSE held
            /\ pc' = IF r THEN "clear" ELSE "input"
    /\ UNCHANGED <<n, m_pods, syncvars, podvars, wpc, i, input, result, strict,
                   runs, nin, run_in, chk>>
    /\ UNCHANGED fvars

\* mutant: goto end without clearing the accepted pod
pipe_clear_skip ==
    /\ pc = "clear"
    /\ pc' = "await_end"
    /\ UNCHANGED <<n, m_pods, syncvars, podvars, wpc, i, input, result, strict,
                   stopped, runs, hvars>>
    /\ UNCHANGED fvars

\* m_pods[i]->clear(); goto end;
pipe_clear ==
    /\ pc = "clear"
    /\ clear(i)
    /\ pc' = "await_end"
    /\ UNCHANGED <<n, m_pods, s_mutex, s_cond, wpc, i, input, result, strict,
                   stopped, runs, hvars>>
    /\ UNCHANGED fvars

\* mutant: in() is called twice and the first candidate is dropped
pipe_input_twice ==
    /\ pc = "input"
    /\ nin' = IF nin + 2 <= MaxInputs THEN nin + 2 ELSE nin + 1
    /\ input' = nin'
    /\ pc' = "set_data"
    /\ UNCHANGED <<n, m_pods, syncvars, podvars, wpc, i, result, strict,
                   stopped, runs, run_in, loop_cb, held, cb, chk>>
    /\ UNCHANGED fvars

\* the argument in() of m_pods[i]->set_data(in())
pipe_input ==
    /\ pc = "input"
    /\ nin' = nin + 1
    /\ input' = in
    /\ pc' = "set_data"
    /\ UNCHANGED <<n, m_pods, syncvars, podvars, wpc, i, result, strict,
                   stopped, runs, run_in, loop_cb, held, cb, chk>>
    /\ UNCHANGED fvars

\* m_pods[i]->set_data(...); then the next idle pod of the for loop
pipe_set_data ==
    /\ pc = "set_data"
    /\ set_data(i, input)
    /\ IF IdleAfter(i) # {}
       THEN /\ i' = Min(IdleAfter(i))
            /\ pc' = "callback"
       ELSE /\ i' = 1
            /\ pc' = "await"
    /\ UNCHANGED <<n, m_pods, s_mutex, s_cond, wpc, input, result, strict,
                   stopped, runs, hvars>>
    /\ UNCHANGED fvars

\* mutant: the wait for the busy pods after "end:" is missing
pipe_await_end_nowait ==
    /\ pc = "await_end"
    /\ IF ~strict /\ PairAfter(0) # {}
       THEN /\ i' = Min(PairAfter(0))
            /\ pc' = "drain_callback"
            /\ UNCHANGED <<s_mutex, s_cond, runs>>
       ELSE /\ Return
            /\ UNCHANGED <<i, s_cond>>
    /\ UNCHANGED <<n, m_pods, m_mutex, m_cond, podvars, wpc, input, result,
                   strict, stopped, hvars>>
    /\ UNCHANGED fvars

\* end: while (countBusy()) s_cond->wait(lk); if (!strict) ...; return
pipe_await_end ==
    /\ pc = "await_end"
    /\ IF countBusy # 0
       THEN /\ s_mutex' = "free"
            /\ s_cond' = FALSE
            /\ pc' = "wait_end"
            /\ UNCHANGED <<i, runs>>
       ELSE IF ~strict /\ PairAfter(0) # {}
       THEN /\ i' = Min(PairAfter(0))
            /\ pc' = "drain_callback"
            /\ UNCHANGED <<s_mutex, s_cond, runs>>
       ELSE /\ Return
            /\ UNCHANGED <<i, s_cond>>
    /\ UNCHANGED <<n, m_pods, m_mutex, m_cond, podvars, wpc, input, result,
                   strict, stopped, hvars>>
    /\ UNCHANGED fvars

\* bk(sl->get_data().value(), sl->get_result().value()); the answer is dropped
pipe_drain_callback ==
    /\ pc = "drain_callback"
    /\ cb' = [cb EXCEPT ![m_val[i]] = @ + 1]
    /\ pc' = "drain_clear"
    /\ UNCHANGED <<n, m_pods, syncvars, podvars, wpc, i, input, result, strict,
                   stopped, runs, nin, run_in, loop_cb, held, chk>>
    /\ UNCHANGED fvars

\* sl->clear(); then the next pod that holds a pair, or return
pipe_drain_clear ==
    /\ pc = "drain_clear"
    /\ clear(i)
    /\ IF PairAfter(i) # {}
       THEN /\ i' = Min(PairAfter(i))
            /\ pc' = "drain_callback"
            /\ UNCHANGED <<s_mutex, runs>>
       ELSE /\ Return
            /\ UNCHANGED i
    /\ UNCHANGED <<n, m_pods, s_cond, wpc, input, result, strict, stopped,
                   hvars>>
    /\ UNCHANGED fvars

(***************************************************************************)
(* pipeline::~pipeline and pod::~pod                                       *)
(***************************************************************************)
\* ~pipeline() begins
destroy ==
    /\ pc = "idle"
    /\ i' = 1
    /\ pc' = IF m_pods = 0 THEN "destroyed" ELSE "terminate"
    /\ UNCHANGED <<n, m_pods, syncvars, podvars, wpc, input, result, strict,
                   stopped, runs, hvars>>
    /\ UNCHANGED fvars

\* for (const auto &sl : m_pods) sl->terminate();
pipeline_terminate ==
    /\ pc = "terminate"
    /\ terminate(i)
    /\ IF i < m_pods
       THEN /\ i' = i + 1
            /\ UNCHANGED pc
       ELSE /\ i' = 1
            /\ pc' = "join"
    /\ UNCHANGED <<n, m_pods, s_mutex, s_cond, wpc, input, result, strict,
                   stopped, runs, hvars>>
    /\ UNCHANGED fvars

\* ~pod(): m_thread.join();
pod_join ==
    /\ pc = "join"
    /\ wpc[i] = "exited"
    /\ IF i < m_pods
       THEN /\ i' = i + 1
            /\ UNCHANGED pc
       ELSE /\ i' = 1
            /\ pc' = "destroyed"
    /\ UNCHANGED <<n, m_pods, syncvars, podvars, wpc, input, result, strict,
                   stopped, runs, hvars>>
    /\ UNCHANGED fvars

Coordinator ==
    \/ \E st \in BOOLEAN : pipe(st)
    \/ serial_input \/ serial_check \/ serial_callback
    \/ pipe_lock \/ pipe_seed_input \/ pipe_seed_set_data
    \/ pipe_await \/ pipe_wake
    \/ pipe_callback \/ pipe_clear \/ pipe_input \/ pipe_set_data
    \/ pipe_await_end \/ pipe_drain_callback \/ pipe_drain_clear
    \/ destroy \/ pipeline_terminate \/ pod_join

Worker(w) ==
    \/ execute_lock(w) \/ execute_loop(w) \/ execute_check(w)
    \/ execute_lock_shared(w) \/ execute_notify(w) \/ execute_wake(w)

PNext ==
    \/ \E st \in BOOLEAN : pipe(st)
    \/ serial_input
    \/ serial_check
    \/ serial_callback
    \/ pipe_lock
    \/ pipe_seed_input
    \/ pipe_seed_set_data
    \/ pipe_await
    \/ pipe_wake
    \/ pipe_spurious
    \/ pipe_callback
    \/ pipe_clear
    \/ pipe_input
    \/ pipe_set_data
    \/ pipe_await_end
    \/ pipe_drain_callback
    \/ pipe_drain_clear
    \/ destroy
    \/ pipeline_terminate
    \/ pod_join
    \/ \E w \in Pods : execute_lock(w)
    \/ \E w \in Pods : execute_loop(w)
    \/ \E w \in Pods : execute_check(w)
    \/ \E w \in Pods : execute_lock_shared(w)
    \/ \E w \in Pods : execute_notify(w)
    \/ \E w \in Pods : execute_wake(w)
    \/ \E w \in Pods : execute_spurious(w)

vars == <<pvars, fvars>>

\* the pipeline on its own: no polynomial is under test
NoCheck == primitive = "" /\ check = <<>> /\ optres = <<>> /\ called = {}
NoCall == other = <<>> /\ arg = 0 /\ op = "" /\ out = <<>>
NoField == made = "" /\ num = 0 /\ stream = <<>>
NoPoly ==
    /\ field = 0
    /\ poly = <<>>
    /\ verdict = <<>>
    /\ NoCheck
    /\ NoCall
    /\ NoField

Init == PInit /\ NoPoly
Next == PNext
Spec == Init /\ [][Next]_vars
(***************************************************************************)
(* Field and polynomial part.  A field element is its stored residue m_val *)
(* (an unsigned integer); a polynomial is its coefficient vector m_data,   *)
(* coefficient of x^k at index k + 1.  An operation that throws yields     *)
(* Throw (elements, degrees) or ThrowPoly (polynomials), and every caller  *)
(* passes that on, as an uncaught exception does.                          *)
(***************************************************************************)
\* the outcome "an exception left the function"
Throw == -1
ThrowPoly == <<Throw>>
Thrown(p) == p = ThrowPoly

Max(S) == CHOOSE x \in S : \A y \in S : x >= y

\* the loop of detail::inv_calc returning u2 without its sign instead of
\* base + u2 when u2 is negative
RECURSIVE inv_calc_loop_unsigned(_, _, _, _, _)
inv_calc_loop_unsigned(base, u0, u2, v0, v2) ==
    IF v0 > 0
    THEN LET q == u0 \div v0
         IN  inv_calc_loop_unsigned(base, v0, v2, u0 - q * v0, u2 - q * v2)
    ELSE IF u0 > 1 THEN Throw
    ELSE IF u2 < 0 THEN 0 - u2 ELSE u2

\* detail::inv_calc: the loop of the extended Euclidean algorithm; u1 and v1
\* never reach the result and are left out
RECURSIVE inv_calc_loop(_, _, _, _, _)
inv_calc_loop(base, u0, u2, v0, v2) ==
    IF v0 > 0
    THEN LET q == u0 \div v0
         IN  inv_calc_loop(base, v0, v2, u0 - q * v0, u2 - q * v2)
    ELSE IF u0 > 1 THEN Throw
    ELSE IF u2 < 0 THEN base + u2 ELSE u2

\* detail::inv_calc
inv_calc(base, val) ==
    IF val = 1 THEN 1
    ELSE IF val = 0 THEN Throw
    ELSE inv_calc_loop(base, base, 0, val, 1)

\* gf::gf: the loop that fills m_inv, from index k on; <<>> when inv_calc throws
RECURSIVE gf_fill(_, _, _)
gf_fill(base, inv, k) ==
    IF k >= base THEN inv
    ELSE IF inv[k] # 0 THEN gf_fill(base, inv, k + 1)
    ELSE LET w == inv_calc(base, k)
         IN  IF w = Throw THEN <<>>
             ELSE gf_fill(base, [[inv EXCEPT ![k] = w] EXCEPT ![w] = k], k + 1)

\* gf::gf: m_inv(base, 0) and the filling loop
gf(base) == gf_fill(base, [v \in 0..(base - 1) |-> 0], 1)

\* gf::mul_inv
mul_inv(base, val) ==
    LET m_inv == gf(base)
    IN  IF val % base = 0 THEN Throw ELSE m_inv[val % base]

\* gfn::gfn(field, val)
gfn(P, val) == val % P

\* gfn::operator+ and operator+=
gfn_plus(P, a, b) == (a + b) % P

\* gfn::operator- (binary) and operator-=
gfn_minus(P, a, b) == (P + a - b) % P

\* gfn::operator* and operator*=
gfn_times(P, a, b) == (a * b) % P

\* gfn::operator-() const: the residue is not reduced again
gfn_negate(P, a) == P - a

\* gfn::operator/ and operator/=
gfn_divide(P, a, b) ==
    IF b = 0 THEN Throw
    ELSE LET w == mul_inv(P, b)
         IN  IF w = Throw THEN Throw ELSE (a * w) % P

\* gfn::operator+() const: gfn {*this}, the copy constructor keeps m_val
gfn_unary_plus(a) == a

\* gfn::operator++ and operator++(int): the value of the element afterwards
gfn_increment(P, a) == (a + 1) % P

\* gfn::operator-- and operator--(int): the value of the element afterwards
gfn_decrement(P, a) == (P + a - 1) % P

\* gfn::operator=(const gfn &): gfn tmp {other.m_field, other.m_val}; swap
gfn_assign(P, b) == gfn(P, b)

\* operator>>(std::istream &, gfn &): is >> val.m_val; val.m_val %= base
gfn_input(P, text) == text % P

\* make_gf: "returned" with a field object, "threw" when gf::gf throws (new
\* gf(base) then leaves no object), "aborted" when assert(base > 0) fails;
\* ndebug tells whether the build has NDEBUG, which removes the assert
make_gf(base, ndebug) ==
    IF base = 0 THEN (IF ndebug THEN "returned" ELSE "aborted")
    ELSE IF gf(base) = <<>> THEN "threw"
    ELSE "returned"

\* gfpoly::reduce: drop the trailing coefficients for which is_zero() holds
reduce(p) ==
    LET nz == {k \in 1..Len(p) : p[k] # 0}
    IN  IF nz = {} THEN <<>> ELSE SubSeq(p, 1, Max(nz))

\* gfpoly::gfpoly(field, vector<uintmax_t>)
gfpoly(P, l) == reduce([k \in 1..Len(l) |-> gfn(P, l[k])])

\* gfpoly::gfpoly(field, uintmax_t)
gfpoly_value(P, value) == IF value % P # 0 THEN <<gfn(P, value)>> ELSE <<>>

\* gfpoly::is_zero
is_zero(p) == p = <<>>

\* gfpoly::degree
degree(p) == IF Len(p) = 0 THEN Throw ELSE Len(p) - 1

\* gfpoly::transform(const gfpoly &, std::minus): a -= value
minus_assign(P, a, value) ==
    LET sz == IF Len(a) < Len(value) THEN Len(value) ELSE Len(a)
        at(k) == IF k <= Len(a) THEN a[k] ELSE 0
    IN  reduce([k \in 1..sz |->
                  IF k <= Len(value) THEN gfn_minus(P, at(k), value[k])
                  ELSE at(k)])

\* operator-(gfpoly a): negate every coefficient, then reduce
negate(P, a) == reduce([k \in 1..Len(a) |-> gfn_negate(P, a[k])])

\* operator-(const gfpoly &a, gfpoly &&b): b -= a; return -b;
minus_rvalue(P, a, b) == negate(P, minus_assign(P, b, a))

\* prod[k] after the double loop of multiply: the += of a[i] * b[j], i + j = k
RECURSIVE prod_sum(_, _, _, _, _)
prod_sum(P, a, b, k, ia) ==
    IF ia > Len(a) THEN 0
    ELSE LET jb == k + 1 - ia
             rest == prod_sum(P, a, b, k, ia + 1)
         IN  IF jb >= 1 /\ jb <= Len(b)
             THEN gfn_plus(P, rest, gfn_times(P, a[ia], b[jb]))
             ELSE rest

\* gfpoly::multiply
multiply(P, a, b) ==
    IF is_zero(a) \/ is_zero(b) THEN <<>>
    ELSE reduce([k \in 1..(Len(a) + Len(b) - 1) |-> prod_sum(P, a, b, k, 1)])

\* gfpoly::division: the do-while loop, at index k (vectors are 0-based there)
RECURSIVE division_loop(_, _, _, _, _)
division_loop(P, q, u, v, k) ==
    LET nn == Len(v) - 1
        qk == gfn_divide(P, u[nn + k + 1], v[nn + 1])
        u1 == [j \in 1..Len(u) |->
                 IF j - 1 >= k /\ j - 1 < nn + k
                 THEN gfn_minus(P, u[j], gfn_times(P, qk, v[j - k]))
                 ELSE u[j]]
        q1 == [q EXCEPT ![k + 1] = qk]
    IN  IF qk = Throw THEN <<ThrowPoly, ThrowPoly>>
        ELSE IF k = 0 THEN <<reduce(q1), reduce(SubSeq(u1, 1, nn))>>
        ELSE division_loop(P, q1, u1, v, k - 1)

\* gfpoly::division
division(P, u, v) ==
    division_loop(P, [k \in 1..(Len(u) - Len(v) + 1) |-> 0], u, v,
                  Len(u) - Len(v))

\* gfpoly::quotient_remainder, CHECK_FIELD(divisor) compiled in
quotient_remainder(P, dividend, divisor) ==
    IF is_zero(divisor) THEN <<ThrowPoly, ThrowPoly>>
    ELSE IF Len(dividend) < Len(divisor) THEN <<(<<>>), dividend>>
    ELSE division(P, dividend, divisor)

\* gfpoly::operator<<=: reduce, then insert sh zero coefficients in front
shift_left(a, sh) == [k \in 1..sh |-> 0] \o reduce(a)

\* operator==(const gfpoly &, const gfpoly &): m_data compared element-wise
equal(a, b) == a = b

\* operator%(const gfpoly &, const gfpoly &) and gfpoly::operator%=
remainder(P, a, b) == Head(Tail(quotient_remainder(P, a, b)))

\* operator/(const gfpoly &, const gfpoly &) and gfpoly::operator/=
quotient(P, a, b) == Head(quotient_remainder(P, a, b))

\* gfpoly::operator=(const gfpoly &): m_data = p.m_data.  The assignment of
\* a vector assigns to the elements it already holds (gfn::operator=(const
\* gfn &) builds the element again from the value, which reduces it) and
\* constructs copies for the rest; after a reallocation all are copies.
copy_assign(P, a, value, realloc) ==
    IF Thrown(value) THEN ThrowPoly
    ELSE [k \in 1..Len(value) |->
            IF k <= Len(a) /\ ~realloc THEN gfn(P, value[k]) ELSE value[k]]

\* gcd: the while loop; u1, u2, v1, v2 never reach the result and are left
\* out.  u0 = v0 and v0 = w0 are copy assignments to a vector that is at
\* least as long as the one assigned.
RECURSIVE gcd_loop(_, _, _)
gcd_loop(P, u0, v0) ==
    IF is_zero(v0) THEN u0
    ELSE LET q == quotient(P, u0, v0)
         IN  IF Thrown(q) THEN ThrowPoly
             ELSE CHOOSE g \in
                      {gcd_loop(P, copy_assign(P, u0, v0, FALSE),
                                copy_assign(P, v0, w0, FALSE)) :
                          w0 \in {minus_rvalue(P, u0, multiply(P, q, v0))}} :
                      TRUE

\* gcd; std::swap(m, n) moves m out, copies n to the vector left empty and
\* copy-assigns the former m to n, which is the longer vector
gcd(P, m, nn) ==
    IF is_zero(m) \/ is_zero(nn) THEN ThrowPoly
    ELSE IF degree(m) < degree(nn)
    THEN gcd_loop(P, nn, copy_assign(P, nn, m, FALSE))
    ELSE gcd_loop(P, m, nn)

\* detail::integer_power (values stay far below the width of uintmax_t here)
RECURSIVE integer_power(_, _)
integer_power(t, e) ==
    IF e = 0 THEN 1
    ELSE IF e = 1 THEN t
    ELSE IF e = 2 THEN t * t
    ELSE IF e = 3 THEN t * t * t
    ELSE LET power == integer_power(t, e \div 2)
         IN  IF e % 2 = 1 THEN power * power * t ELSE power * power

\* detail::derivative
derivative(P, val) ==
    IF is_zero(val) THEN ThrowPoly
    ELSE reduce([k \in 1..Len(val) |->
                   IF k = Len(val) THEN 0
                   ELSE gfn_times(P, gfn(P, k), val[k + 1])])

\* the loop of detail::x_pow_mod_sub with d taken at the first return to x^n
\* before pow -= tmp, not after it
RECURSIVE x_pow_mod_sub_loop_early(_, _, _, _, _, _, _)
x_pow_mod_sub_loop_early(P, pow, mod, sub, xn, res, d) ==
    IF is_zero(res) THEN ThrowPoly
    ELSE LET nn == Len(mod) - 1
             m == degree(res)
             tmp == nn - m
             pow1 == pow - tmp
             res1 == shift_left(res, tmp)
             hit == equal(res1, xn)
             d1 == IF hit THEN (IF d = 0 THEN pow ELSE d - pow1) ELSE d
             pow2 == IF hit /\ d # 0 /\ d1 # 0 THEN pow1 % d1 ELSE pow1
         IN  IF pow + m >= nn
             THEN x_pow_mod_sub_loop_early(P, pow2, mod, sub, xn,
                                           remainder(P, res1, mod), d1)
             ELSE minus_assign(P, shift_left(res, pow), sub)

\* detail::x_pow_mod_sub: the for loop and the return statement
RECURSIVE x_pow_mod_sub_loop(_, _, _, _, _, _, _)
x_pow_mod_sub_loop(P, pow, mod, sub, xn, res, d) ==
    IF is_zero(res) THEN ThrowPoly
    ELSE LET nn == Len(mod) - 1
             m == degree(res)
             tmp == nn - m
             pow1 == pow - tmp
             res1 == shift_left(res, tmp)
             hit == equal(res1, xn)
             d1 == IF hit THEN (IF d = 0 THEN pow1 ELSE d - pow1) ELSE d
             undefined == hit /\ d # 0 /\ d1 = 0
             pow2 == IF hit /\ d # 0 /\ d1 # 0 THEN pow1 % d1 ELSE pow1
         IN  IF pow + m >= nn
             THEN IF undefined THEN ThrowPoly
                  ELSE x_pow_mod_sub_loop(P, pow2, mod, sub, xn,
                                          remainder(P, res1, mod), d1)
             ELSE minus_assign(P, shift_left(res, pow), sub)

\* detail::x_pow_mod_sub
x_pow_mod_sub(P, pow, mod, sub) ==
    IF is_zero(mod) THEN ThrowPoly
    ELSE x_pow_mod_sub_loop(P, pow, mod, sub,
                            shift_left(gfpoly_value(P, 1), degree(mod)),
                            gfpoly_value(P, 1), 0)

\* berlekampMatrixRank: row i of M - E (i is 0-based as in the code)
berlekampRow(P, val, ix) ==
    LET nn == Len(val) - 1
        tmp == x_pow_mod_sub(P, ix * P, val, gfpoly_value(P, 0))
    IN  IF Thrown(tmp) \/ is_zero(tmp) THEN <<>>
        ELSE [j \in 1..nn |->
                LET mij == IF j <= Len(tmp) THEN gfn_plus(P, 0, tmp[j]) ELSE 0
                IN  IF j = ix + 1 THEN gfn_minus(P, mij, gfn(P, 1)) ELSE mij]

\* berlekampMatrixRank: the loop over j for pivot row i and column k
\* (1-based); yields <<m, f>>, or <<>> when mul_inv throws
RECURSIVE berlekampEliminate(_, _, _, _, _, _)
berlekampEliminate(P, m, ix, k, j, f) ==
    LET nn == Len(m)
        mul == gfn_times(P, mul_inv(P, m[ix][k]), m[j][k])
        sub == [m EXCEPT ![j] = [l \in 1..nn |->
                  IF l = k THEN 0
                  ELSE IF l > k
                       THEN gfn_minus(P, m[j][l], gfn_times(P, m[ix][l], mul))
                       ELSE m[j][l]]]
        swp == [m EXCEPT ![ix] = [l \in 1..nn |->
                                   IF l >= k THEN m[j][l] ELSE m[ix][l]],
                         ![j] = [l \in 1..nn |->
                                   IF l >= k THEN m[ix][l] ELSE m[j][l]]]
    IN  IF j > nn THEN <<m, f>>
        ELSE IF m[j][k] = 0 THEN berlekampEliminate(P, m, ix, k, j + 1, f)
        ELSE IF ~f THEN berlekampEliminate(P, swp, ix, k, j + 1, TRUE)
        ELSE IF mul_inv(P, m[ix][k]) = Throw THEN <<>>
        ELSE berlekampEliminate(P, sub, ix, k, j + 1, f)

\* berlekampMatrixRank: the loop over the columns; yields the final i (0-based)
RECURSIVE berlekampEchelon(_, _, _, _)
berlekampEchelon(P, m, ix, k) ==
    IF ix <= Len(m) /\ k <= Len(m)
    THEN LET r == berlekampEliminate(P, m, ix, k, ix + 1, m[ix][k] # 0)
         IN  IF r = <<>> THEN Throw
             ELSE berlekampEchelon(P, r[1], IF r[2] THEN ix + 1 ELSE ix, k + 1)
    ELSE ix - 1

\* berlekampMatrixRank
berlekampMatrixRank(P, val) ==
    LET nn == Len(val) - 1
        m == [ix \in 1..nn |-> berlekampRow(P, val, ix - 1)]
    IN  IF \E ix \in 1..nn : m[ix] = <<>> THEN Throw
        ELSE berlekampEchelon(P, m, 1, 1)

\* a bool returned, or the exception that left the function
Returns(b) == IF b THEN "true" ELSE "false"
Raised == "throw"

\* the early exits shared by the three tests; "" when none applies
degenerate(val) ==
    IF is_zero(val) THEN "false"
    ELSE IF degree(val) = 0 \/ (val[1] = 0 /\ degree(val) > 1) THEN "false"
    ELSE IF degree(val) = 1 THEN "true"
    ELSE ""

\* is_irreducible_berlekamp
is_irreducible_berlekamp(P, val) ==
    IF degenerate(val) # "" THEN degenerate(val)
    ELSE LET d == derivative(P, val)
             g == gcd(P, val, d)
             rk == berlekampMatrixRank(P, val)
         IN  IF Thrown(d) THEN Raised
             ELSE IF is_zero(d) THEN "false"
             ELSE IF Thrown(g) \/ is_zero(g) THEN Raised
             ELSE IF degree(g) # 0 THEN "false"
             ELSE IF rk = Throw THEN Raised
             ELSE Returns(rk = degree(val) - 1)

\* get_list: while (n % d == 0) n /= d
RECURSIVE get_list_strip(_, _)
get_list_strip(nn, d) == IF nn % d = 0 THEN get_list_strip(nn \div d, d) ELSE nn

\* get_list: the for loop and the final if
RECURSIVE get_list_loop(_, _, _, _)
get_list_loop(begin, nn, d, list) ==
    IF d * d <= nn
    THEN IF nn % d # 0 THEN get_list_loop(begin, nn, d + 1, list)
         ELSE get_list_loop(begin, get_list_strip(nn, d), d + 1,
                            Append(list, begin \div d))
    ELSE IF nn # 1 THEN Append(list, begin \div nn) ELSE list

\* get_list
get_list(nn) == get_list_loop(nn, nn, 2, <<>>)

\* the body shared by the loops of Rabin and Ben-Or for exponent i:
\* "" when the loop goes on
step_outcome(P, val, ix) ==
    LET tmp == x_pow_mod_sub(P, integer_power(P, ix), val, gfpoly(P, <<0, 1>>))
        g == gcd(P, val, tmp)
    IN  IF Thrown(tmp) THEN Raised
        ELSE IF is_zero(tmp) THEN "false"
        ELSE IF Thrown(g) \/ is_zero(g) THEN Raised
        ELSE IF degree(g) > 0 THEN "false"
        ELSE ""

\* is_irreducible_rabin: for (auto i: list), from position k of the list
RECURSIVE rabin_loop(_, _, _, _)
rabin_loop(P, val, list, k) ==
    IF k > Len(list)
    THEN LET tmp == x_pow_mod_sub(P, integer_power(P, degree(val)), val,
                                  gfpoly(P, <<0, 1>>))
         IN  IF Thrown(tmp) THEN Raised ELSE Returns(is_zero(tmp))
    ELSE LET o == step_outcome(P, val, list[k])
         IN  IF o # "" THEN o ELSE rabin_loop(P, val, list, k + 1)

\* is_irreducible_rabin
is_irreducible_rabin(P, val) ==
    IF degenerate(val) # "" THEN degenerate(val)
    ELSE rabin_loop(P, val, get_list(degree(val)), 1)

\* is_irreducible_benor: for (m = n / 2, i = 1; i <= m; ++i), from i on
RECURSIVE benor_loop(_, _, _, _)
benor_loop(P, val, m, ix) ==
    IF ix > m THEN "true"
    ELSE LET o == step_outcome(P, val, ix)
         IN  IF o # "" THEN o ELSE benor_loop(P, val, m, ix + 1)

\* is_irreducible_benor
is_irreducible_benor(P, val) ==
    IF degenerate(val) # "" THEN degenerate(val)
    ELSE benor_loop(P, val, degree(val) \div 2, 1)

\* gfpoly::gfpoly(gfn value): the element is stored unless it converts to false
gfpoly_gfn(value) == IF value # 0 THEN <<value>> ELSE <<>>

\* gfpoly::operator/=(const U &) with a field element: x / value for every
\* coefficient, then reduce
divide_assign(P, a, value) ==
    IF \E k \in 1..Len(a) : gfn_divide(P, a[k], value) = Throw THEN ThrowPoly
    ELSE reduce([k \in 1..Len(a) |-> gfn_divide(P, a[k], value)])

\* factorize: the for loop and the final if
RECURSIVE factorize_loop(_, _, _, _)
factorize_loop(begin, nn, d, list) ==
    IF d * d <= nn
    THEN IF nn % d # 0 THEN factorize_loop(begin, nn, d + 1, list)
         ELSE factorize_loop(begin, get_list_strip(nn, d), d + 1,
                             Append(list, d))
    ELSE IF nn # 1 /\ nn # begin THEN Append(list, nn) ELSE list

\* factorize
factorize(nn) == factorize_loop(nn, nn, 2, <<>>)

\* is_primitive_definition, first condition: the loop over i with tmp = mp^i
\* and m the (1-based) position in list; "" when the condition is met
RECURSIVE primitive_first(_, _, _, _, _, _)
primitive_first(P, mp, list, m, ix, tmp) ==
    IF ix > P - 1 THEN ""
    ELSE IF ix # (P - 1) \div list[m]
    THEN primitive_first(P, mp, list, m, ix + 1, gfn_times(P, tmp, mp))
    ELSE IF tmp = 1 % P THEN "false"
    ELSE IF m = 1 THEN ""
    ELSE primitive_first(P, mp, list, m - 1, ix + 1, gfn_times(P, tmp, mp))

\* is_primitive_definition, third condition: the loop over list3 from k on
RECURSIVE primitive_third(_, _, _, _, _)
primitive_third(P, poly1, r, list3, k) ==
    IF k > Len(list3) THEN "true"
    ELSE LET tmp == x_pow_mod_sub(P, r \div list3[k], poly1, gfpoly_value(P, 0))
         IN  IF Thrown(tmp) THEN Raised
             ELSE IF is_zero(tmp) \/ degree(tmp) = 0 THEN "false"
             ELSE primitive_third(P, poly1, r, list3, k + 1)

\* is_primitive_definition after the early exits, without the second
\* condition x^r = mp (mod val)
primitive_main_unchecked(P, val) ==
    LET nn == degree(val)
        poly1 == divide_assign(P, val, val[nn + 1])
        mp == IF nn % 2 = 1 THEN gfn_negate(P, poly1[1]) ELSE poly1[1]
        list == IF P - 1 = 2 THEN <<2>> ELSE factorize(P - 1)
        first == IF P > 2
                 THEN primitive_first(P, mp, list, Len(list), 1, mp)
                 ELSE ""
        r == (integer_power(P, nn) - 1) \div (P - 1)
    IN  IF Thrown(poly1) THEN Raised
        ELSE IF P = 2 /\ equal(poly1, gfpoly(P, <<1, 1>>)) THEN "false"
        ELSE IF first # "" THEN first
        ELSE primitive_third(P, poly1, r, factorize(r), 1)

\* is_primitive_definition after the early exits, with mp taken from the
\* constant term of val instead of the normalised polynomial
primitive_main_unnormalised(P, val) ==
    LET nn == degree(val)
        poly1 == divide_assign(P, val, val[nn + 1])
        mp == IF nn % 2 = 1 THEN gfn_negate(P, val[1]) ELSE val[1]
        list == IF P - 1 = 2 THEN <<2>> ELSE factorize(P - 1)
        first == IF P > 2
                 THEN primitive_first(P, mp, list, Len(list), 1, mp)
                 ELSE ""
        r == (integer_power(P, nn) - 1) \div (P - 1)
        tmp == x_pow_mod_sub(P, r, val, gfpoly_gfn(mp))
    IN  IF Thrown(poly1) THEN Raised
        ELSE IF P = 2 /\ equal(poly1, gfpoly(P, <<1, 1>>)) THEN "false"
        ELSE IF first # "" THEN first
        ELSE IF Thrown(tmp) THEN Raised
        ELSE IF ~is_zero(tmp) THEN "false"
        ELSE primitive_third(P, poly1, r, factorize(r), 1)

\* is_primitive_definition, after the early exits
primitive_main(P, val) ==
    LET nn == degree(val)
        poly1 == divide_assign(P, val, val[nn + 1])
        mp == IF nn % 2 = 1 THEN gfn_negate(P, poly1[1]) ELSE poly1[1]
        list == IF P - 1 = 2 THEN <<2>> ELSE factorize(P - 1)
        first == IF P > 2
                 THEN primitive_first(P, mp, list, Len(list), 1, mp)
                 ELSE ""
        r == (integer_power(P, nn) - 1) \div (P - 1)
        tmp == x_pow_mod_sub(P, r, val, gfpoly_gfn(mp))
    IN  IF Thrown(poly1) THEN Raised
        ELSE IF P = 2 /\ equal(poly1, gfpoly(P, <<1, 1>>)) THEN "false"
        ELSE IF first # "" THEN first
        ELSE IF Thrown(tmp) THEN Raised
        ELSE IF ~is_zero(tmp) THEN "false"
        ELSE primitive_third(P, poly1, r, factorize(r), 1)

\* is_primitive_definition
is_primitive_definition(P, val) ==
    IF is_zero(val) THEN "false"
    ELSE IF degree(val) = 0 \/ (val[1] = 0 /\ degree(val) > 1) THEN "false"
    ELSE IF degree(val) = 1 /\ val[1] = 0 % P THEN "true"
    ELSE primitive_main(P, val)

\* gfpoly::operator+=(const gfpoly &): transform with std::plus, then reduce
plus_assign(P, a, value) ==
    LET sz == IF Len(a) < Len(value) THEN Len(value) ELSE Len(a)
        at(k) == IF k <= Len(a) THEN a[k] ELSE 0
    IN  reduce([k \in 1..sz |->
                  IF k <= Len(value) THEN gfn_plus(P, at(k), value[k])
                  ELSE at(k)])

\* gfpoly::transform(const U &, op) with an integer value, for operator+=
\* (sign = 1) and operator-= (sign = -1): the polynomial is resized to one
\* coefficient if empty, m_data[0] = op(m_data[0], value), then reduce
transform_scalar(P, a, value, sign) ==
    LET a0 == IF a = <<>> THEN <<0>> ELSE a
        c == IF sign = 1 THEN (a0[1] + (value % P)) % P
             ELSE (P + a0[1] - (value % P)) % P
    IN  reduce([a0 EXCEPT ![1] = c])

\* gfpoly::operator*=(const U &) with an integer value
times_assign_scalar(P, a, value) ==
    reduce([k \in 1..Len(a) |-> (a[k] * (value % P)) % P])

\* std::isdigit and the value of a decimal digit
Digit == ("0" :> 0) @@ ("1" :> 1) @@ ("2" :> 2)
isdigit(c) == c \in DOMAIN Digit

\* std::stringstream(str) >> value: the number that a string of digits spells
RECURSIVE stream_number(_)
stream_number(str) ==
    IF str = <<>> THEN 0
    ELSE 10 * stream_number(SubSeq(str, 1, Len(str) - 1))
         + Digit[str[Len(str)]]

\* operator>>(istream &, gfpoly &), first loop: the value of tmp when the
\* loop ends, or "throw"; k is the position of the next character, tmp the
\* character read last (at first the value of the uninitialised variable)
RECURSIVE read_open(_, _, _)
read_open(text, k, tmp) ==
    IF k > Len(text) THEN tmp
    ELSE IF text[k] = "{" THEN "{"
    ELSE IF text[k] # " " /\ text[k] # "\n" THEN "throw"
    ELSE read_open(text, k + 1, text[k])

\* the position after the character that ended the first loop
RECURSIVE open_end(_, _)
open_end(text, k) ==
    IF k > Len(text) THEN k
    ELSE IF text[k] = "{" THEN k + 1
    ELSE open_end(text, k + 1)

\* what operator>> leaves when it throws std::invalid_argument
ReadThrow == [threw |-> TRUE]

\* operator>>(istream &, gfpoly &), second loop: vec when the loop ends at
\* "}", ReadThrow when a character is wrong or the stream ends first; a
\* string of digits is turned into a number only at a separator
RECURSIVE read_list(_, _, _, _)
read_list(text, k, str, vec) ==
    IF k > Len(text) THEN ReadThrow
    ELSE IF text[k] = "}" THEN [threw |-> FALSE, vec |-> vec]
    ELSE IF text[k] \in {",", " ", "\n"}
         THEN IF str # <<>>
              THEN read_list(text, k + 1, <<>>,
                             Append(vec, stream_number(str)))
              ELSE read_list(text, k + 1, str, vec)
    ELSE IF isdigit(text[k])
         THEN read_list(text, k + 1, Append(str, text[k]), vec)
    ELSE ReadThrow

\* operator>>(istream &, gfpoly &): the vec handed to gfpoly(field, vec), or
\* ReadThrow; junk is the value that the uninitialised tmp holds
read_vector(text, junk) ==
    IF read_open(text, 1, junk) # "{" THEN ReadThrow
    ELSE read_list(text, open_end(text, 1), <<>>, <<>>)

\* gfpoly::operator>>=: the polynomial after the shift, ThrowPoly when
\* degree() or the operator itself throws
shift_right(a, sh) ==
    IF is_zero(a) THEN ThrowPoly
    ELSE IF sh > degree(a) \/ \E k \in 1..sh : a[k] # 0 THEN ThrowPoly
    ELSE SubSeq(a, sh + 1, Len(a))

(***************************************************************************)
(* The irreducibility tests applied to one polynomial: it is built by the  *)
(* constructor from a coefficient vector, unary minus may be applied to    *)
(* it, and each test is called on it once.                                 *)
(***************************************************************************)
\* largest degree of a coefficient vector handed to the constructor
MaxDeg == 4
\* the fields GF(p) the polynomial is taken over
Bases == {2, 3}
Tests == {"berlekamp", "rabin", "benor"}

Vectors(P) == UNION {[1..len -> 0..(P - 1)] : len \in 0..(MaxDeg + 1)}

\* auto field = make_gf(p); gfpoly poly1(field, vector); no test has run
IrrInit ==
    /\ PInit
    /\ n = 0
    /\ field \in Bases
    /\ poly \in {gfpoly(field, l) : l \in Vectors(field)}
    /\ verdict = [t \in Tests |-> ""]
    /\ NoCheck
    /\ NoCall
    /\ NoField

\* poly1 = -poly1
unary_minus ==
    /\ \A t \in Tests : verdict[t] = ""
    /\ NoCheck
    /\ op = ""
    /\ poly' = negate(field, poly)
    /\ UNCHANGED <<field, verdict, xvars, pvars>>

\* poly1 <<= sh, the result within the degree bound
shift(sh) ==
    /\ \A t \in Tests : verdict[t] = ""
    /\ NoCheck
    /\ op = ""
    /\ Len(poly) + sh <= MaxDeg + 1
    /\ poly' = shift_left(poly, sh)
    /\ UNCHANGED <<field, verdict, xvars, pvars>>

\* r1 = is_irreducible_berlekamp(poly1)
check_berlekamp ==
    /\ verdict["berlekamp"] = ""
    /\ verdict' = [verdict EXCEPT
                     !["berlekamp"] = is_irreducible_berlekamp(field, poly)]
    /\ UNCHANGED <<field, poly, xvars, pvars>>

\* r2 = is_irreducible_rabin(poly1)
check_rabin ==
    /\ verdict["rabin"] = ""
    /\ verdict' = [verdict EXCEPT
                     !["rabin"] = is_irreducible_rabin(field, poly)]
    /\ UNCHANGED <<field, poly, xvars, pvars>>

\* r3 = is_irreducible_benor(poly1)
check_benor ==
    /\ verdict["benor"] = ""
    /\ verdict' = [verdict EXCEPT
                     !["benor"] = is_irreducible_benor(field, poly)]
    /\ UNCHANGED <<field, poly, xvars, pvars>>

IrrNext ==
    \/ unary_minus
    \/ \E sh \in 1..(MaxDeg + 1) : shift(sh)
    \/ check_berlekamp
    \/ check_rabin
    \/ check_benor

IrrSpec == IrrInit /\ [][IrrNext]_vars

(***************************************************************************)
(* The primitivity test and the check function of make_check_func, applied *)
(* to the polynomial once the three irreducibility tests have been called  *)
(* on it.                                                                  *)
(***************************************************************************)
IrrMethods == {"nil"} \cup Tests
PrimMethods == {"nil", "definition"}

\* is_primitive_definition(p), called after the irreducibility tests
check_primitive ==
    /\ \A t \in Tests : verdict[t] # ""
    /\ primitive = ""
    /\ primitive' = is_primitive_definition(field, poly)
    /\ UNCHANGED <<field, poly, verdict, check, optres, called, avars, gvars,
                   pvars>>

\* auto check = make_check_func(irr_meth, prim_meth)
make_check_func(irr_meth, prim_meth) ==
    /\ primitive # ""
    /\ check = <<>>
    /\ check' = [irr_meth |-> irr_meth, prim_meth |-> prim_meth,
                 at |-> "made"]
    /\ UNCHANGED <<field, poly, verdict, primitive, optres, called, avars,
                   gvars, pvars>>

\* the switch over irr_meth of check: the outcome of the selected test, nil
\* leaving the field at true.  A test is a function of the polynomial, which
\* has not changed since the test was called on it: the call in check returns
\* the outcome recorded in verdict.
switch_irr_meth(c, outcomes) ==
    IF c.irr_meth = "nil" THEN "true" ELSE outcomes[c.irr_meth]

\* the switch over prim_meth with the test called whatever the
\* irreducibility outcome is
switch_prim_meth_eager(c, irr, P, val) ==
    IF c.prim_meth = "nil" THEN <<"true", FALSE>>
    ELSE <<is_primitive_definition(P, val), TRUE>>

\* the switch over prim_meth of check after the irreducibility outcome irr:
\* res.value().irreducible ? is_primitive_definition(poly) : false, nil
\* leaving the field at true; the second component tells whether
\* is_primitive_definition has been called
switch_prim_meth(c, irr, P, val) ==
    IF c.prim_meth = "nil" THEN <<"true", FALSE>>
    ELSE IF irr = "true" THEN <<is_primitive_definition(P, val), TRUE>>
    ELSE <<"false", FALSE>>

\* the result slot, the tests called and the way check ends, given the
\* outcomes of its two switches: res.emplace({true, true}) comes first, so an
\* exception of a test leaves the slot as it is at that point
check_func_slot(c, irr, prim) ==
    IF irr = Raised
    THEN <<[irreducible |-> TRUE, primitive |-> TRUE], {c.irr_meth}, "raised">>
    ELSE <<[irreducible |-> irr = "true",
            primitive |-> prim[1] = "true" \/ prim[1] = Raised],
           ({c.irr_meth} \ {"nil"}) \cup
               (IF prim[2] THEN {"definition"} ELSE {}),
           IF prim[1] = Raised THEN "raised" ELSE "returned">>

\* check(poly, res)
check_func ==
    /\ check # <<>>
    /\ check.at = "made"
    /\ \E irr \in {switch_irr_meth(check, verdict)} :
       \E prim \in {switch_prim_meth(check, irr, field, poly)} :
       \E body \in {check_func_slot(check, irr, prim)} :
           /\ optres' = body[1]
           /\ called' = body[2]
           /\ check' = [check EXCEPT !.at = body[3]]
    /\ UNCHANGED <<field, poly, verdict, primitive, avars, gvars, pvars>>

CheckNext ==
    \/ IrrNext
    \/ check_primitive
    \/ \E im \in IrrMethods, pm \in PrimMethods : make_check_func(im, pm)
    \/ check_func

CheckSpec == IrrInit /\ [][CheckNext]_vars

(***************************************************************************)
(* detail::x_pow_mod_sub called on two polynomials, each built by the      *)
(* constructor and possibly negated.                                       *)
(***************************************************************************)
\* largest exponent handed to x_pow_mod_sub
MaxPow == 24
\* largest degree of the polynomials handed to x_pow_mod_sub
MaxModDeg == 2

PowInit ==
    /\ PInit
    /\ n = 0
    /\ field \in Bases
    /\ poly = <<>>
    /\ verdict = [t \in Tests |-> ""]
    /\ NoCheck
    /\ NoCall
    /\ NoField

\* poly1 = gfpoly(field, l), l a vector of at most MaxModDeg + 1 coefficients
construct ==
    /\ op = ""
    /\ \E l \in UNION {[1..len -> 0..(field - 1)] : len \in 0..(MaxModDeg + 1)} :
           poly' = gfpoly(field, l)
    /\ UNCHANGED <<field, verdict, xvars, pvars>>

\* other = poly1
assign_other ==
    /\ op = ""
    /\ other' = poly
    /\ UNCHANGED <<field, poly, verdict, cvars, arg, op, out, gvars, pvars>>

\* detail::x_pow_mod_sub(k, poly1, other)
call_x_pow_mod_sub(k) ==
    /\ op = ""
    /\ op' = "x_pow_mod_sub"
    /\ arg' = k
    /\ out' = x_pow_mod_sub(field, k, poly, other)
    /\ UNCHANGED <<field, poly, verdict, cvars, other, gvars, pvars>>

PowNext ==
    \/ construct
    \/ unary_minus
    \/ assign_other
    \/ \E k \in 0..MaxPow : call_x_pow_mod_sub(k)

PowSpec == PowInit /\ [][PowNext]_vars

(***************************************************************************)
(* Polynomial arithmetic: one polynomial object poly1 that the operators   *)
(* of gfpoly are applied to one after the other, and a second polynomial   *)
(* other that is a copy of an earlier value of poly1.  A compound          *)
(* assignment changes poly1 in place; an expression that returns a new     *)
(* polynomial initialises a new object, which is poly1 from then on.  op   *)
(* is the operator applied last, arg its integer argument, out what an     *)
(* expression that leaves poly1 alone has returned, or ThrowPoly after an  *)
(* exception.                                                              *)
(***************************************************************************)
\* largest number of coefficients of a polynomial
MaxCoef == 3
\* largest shift amount
MaxShift == 3

PolyInit ==
    /\ PInit
    /\ n = 0
    /\ field \in Bases
    /\ poly = <<>>
    /\ verdict = [t \in Tests |-> ""]
    /\ NoCheck
    /\ NoCall
    /\ NoField

\* what an operator of poly1 leaves alone
PolyFrame == UNCHANGED <<field, verdict, cvars, gvars, pvars>>

\* the value of poly1 after an operator that returned value, or threw
Kept(value) == IF Thrown(value) THEN poly ELSE value

\* the record of a call of an operator of poly1 that returned value, or threw
Called(name, k, value) ==
    /\ op' = name
    /\ arg' = k
    /\ out' = IF Thrown(value) THEN ThrowPoly ELSE <<>>
    /\ UNCHANGED other
    /\ PolyFrame

\* poly1 = gfpoly(field, l)
p_construct ==
    \E l \in UNION {[1..len -> 0..(field - 1)] : len \in 0..MaxCoef} :
        /\ poly' = gfpoly(field, l)
        /\ Called("gfpoly", 0, gfpoly(field, l))

\* gfpoly other(poly1)
p_copy ==
    /\ op' = "copy"
    /\ arg' = 0
    /\ other' = poly
    /\ out' = <<>>
    /\ UNCHANGED poly
    /\ PolyFrame

\* poly1 = other; the vector of poly1 is reallocated or not when other is
\* the longer one, depending on its capacity
p_assign ==
    \E realloc \in IF Len(other) > Len(poly) THEN BOOLEAN ELSE {FALSE} :
        /\ poly' = copy_assign(field, poly, other, realloc)
        /\ Called("=", 0, other)

\* poly1 += other
p_plus_assign ==
    /\ poly' = Kept(plus_assign(field, poly, other))
    /\ Called("+=", 0, plus_assign(field, poly, other))

\* poly1 -= other
p_minus_assign ==
    /\ poly' = Kept(minus_assign(field, poly, other))
    /\ Called("-=", 0, minus_assign(field, poly, other))

\* gfpoly next = other - std::move(poly1)
p_minus_rvalue ==
    /\ poly' = Kept(minus_rvalue(field, other, poly))
    /\ Called("-", 0, minus_rvalue(field, other, poly))

\* poly1 *= other
p_times_assign ==
    /\ Len(poly) + Len(other) - 1 <= MaxCoef
    /\ poly' = Kept(multiply(field, poly, other))
    /\ Called("*=", 0, multiply(field, poly, other))

\* poly1 /= other
p_divide_assign ==
    /\ poly' = Kept(copy_assign(field, poly, quotient(field, poly, other),
                                FALSE))
    /\ Called("/=", 0, quotient(field, poly, other))

\* poly1 %= other
p_modulo_assign ==
    /\ poly' = Kept(copy_assign(field, poly, remainder(field, poly, other),
                                FALSE))
    /\ Called("%=", 0, remainder(field, poly, other))

\* poly1 += value, poly1 -= value
p_plus_scalar ==
    \E value \in 0..(field - 1) :
        /\ poly' = Kept(transform_scalar(field, poly, value, 1))
        /\ Called("+= scalar", value, transform_scalar(field, poly, value, 1))

p_minus_scalar ==
    \E value \in 0..(field - 1) :
        /\ poly' = Kept(transform_scalar(field, poly, value, -1))
        /\ Called("-= scalar", value, transform_scalar(field, poly, value, -1))

\* poly1 *= value
p_times_scalar ==
    \E value \in 0..(field - 1) :
        /\ poly' = Kept(times_assign_scalar(field, poly, value))
        /\ Called("*= scalar", value, times_assign_scalar(field, poly, value))

\* poly1 /= value
p_divide_scalar ==
    \E value \in 0..(field - 1) :
        /\ poly' = Kept(divide_assign(field, poly, value))
        /\ Called("/= scalar", value, divide_assign(field, poly, value))

\* poly1 %= value
p_modulo_scalar ==
    \E value \in 0..(field - 1) :
        /\ poly' = Kept(<<>>)
        /\ Called("%= scalar", value, <<>>)

\* gfpoly next = -poly1
p_negate ==
    /\ poly' = Kept(negate(field, poly))
    /\ Called("-poly", 0, negate(field, poly))

\* poly1 <<= sh
p_shift_left(sh) ==
    /\ Len(poly) + sh <= MaxCoef
    /\ poly' = shift_left(poly, sh)
    /\ Called("<<=", sh, shift_left(poly, sh))

\* poly1 >>= sh; out keeps the polynomial as it was before the call
p_shift_right(sh) ==
    /\ op' = ">>="
    /\ arg' = sh
    /\ poly' = IF Thrown(shift_right(poly, sh)) THEN poly
               ELSE shift_right(poly, sh)
    /\ out' = [before |-> poly, threw |-> Thrown(shift_right(poly, sh))]
    /\ UNCHANGED other
    /\ PolyFrame

\* poly1.set_zero()
p_set_zero ==
    /\ poly' = Kept(<<>>)
    /\ Called("set_zero", 0, <<>>)

\* (a / b, a % b, (a / b) * b + (a % b)) for a = poly1 and b = other
division_identity(P, a, b) ==
    LET q == quotient(P, a, b)
        r == remainder(P, a, b)
    IN  IF Thrown(q) \/ Thrown(r) THEN ThrowPoly
        ELSE <<q, r, plus_assign(P, multiply(P, q, b), r)>>

\* poly1 / other, poly1 % other and (poly1 / other) * other + (poly1 % other)
p_division_identity ==
    /\ op' = "(a / b) * b + (a % b)"
    /\ arg' = 0
    /\ out' = division_identity(field, poly, other)
    /\ UNCHANGED <<poly, other>>
    /\ PolyFrame

\* (a << sh) >> sh
shift_round_trip(a, sh) == shift_right(shift_left(a, sh), sh)

\* (poly1 << sh) >> sh
p_shift_round_trip(sh) ==
    /\ Len(poly) + sh <= MaxCoef
    /\ op' = "(a << n) >> n"
    /\ arg' = sh
    /\ out' = shift_round_trip(poly, sh)
    /\ UNCHANGED <<poly, other>>
    /\ PolyFrame

PolyNext ==
    \/ p_construct
    \/ p_copy
    \/ p_assign
    \/ p_plus_assign
    \/ p_minus_assign
    \/ p_minus_rvalue
    \/ p_times_assign
    \/ p_divide_assign
    \/ p_modulo_assign
    \/ p_plus_scalar
    \/ p_minus_scalar
    \/ p_times_scalar
    \/ p_divide_scalar
    \/ p_modulo_scalar
    \/ p_negate
    \/ \E sh \in 0..MaxShift : p_shift_left(sh)
    \/ \E sh \in 0..MaxShift : p_shift_right(sh)
    \/ p_set_zero
    \/ p_division_identity
    \/ \E sh \in 0..MaxShift : p_shift_round_trip(sh)

PolySpec == PolyInit /\ [][PolyNext]_vars

(***************************************************************************)
(* is_primitive_definition called on a polynomial and on its product with  *)
(* a nonzero scalar: the polynomial is built by the constructor and may be *)
(* negated, other is the product c * poly1, and out holds what the test    *)
(* has returned for poly1 and for the product.                             *)
(***************************************************************************)
\* largest degree of a polynomial that is scaled
MaxScaleDeg == 3
\* the fields GF(p) the scaled polynomial is taken over
ScaleBases == {2, 3, 5}

\* auto field = make_gf(p); gfpoly poly1(field, l)
ScaleInit ==
    /\ PInit
    /\ n = 0
    /\ field \in ScaleBases
    /\ poly \in {gfpoly(field, l) :
                    l \in UNION {[1..len -> 0..(field - 1)] :
                                   len \in 0..(MaxScaleDeg + 1)}}
    /\ verdict = [t \in Tests |-> ""]
    /\ NoCheck
    /\ NoCall
    /\ NoField

\* poly1 = -poly1
s_negate ==
    /\ op = ""
    /\ poly' = negate(field, poly)
    /\ op' = "-"
    /\ UNCHANGED <<other, arg, out>>
    /\ PolyFrame

\* auto other = c * poly1, with c one of 1, ..., p - 1
s_scale ==
    /\ op \in {"", "-"}
    /\ \E c \in 1..(field - 1) :
           /\ other' = times_assign_scalar(field, poly, c)
           /\ arg' = c
    /\ op' = "*"
    /\ UNCHANGED <<poly, out>>
    /\ PolyFrame

\* is_primitive_definition(poly1) and is_primitive_definition(other)
s_primitive ==
    /\ op = "*"
    /\ out' = <<is_primitive_definition(field, poly),
                is_primitive_definition(field, other)>>
    /\ op' = "is_primitive_definition"
    /\ UNCHANGED <<poly, other, arg>>
    /\ PolyFrame

ScaleNext ==
    \/ s_negate
    \/ s_scale
    \/ s_primitive

ScaleSpec == ScaleInit /\ [][ScaleNext]_vars

(***************************************************************************)
(* Division in the two build configurations: CHECK_FIELD is compiled in    *)
(* (Debug, or IRRPOLY_RELEASE_CHECKED) or compiled out (Release).  One     *)
(* division poly1 / other, poly1 % other, poly1 /= other or poly1 %= other *)
(* is run on two polynomials built by the constructor.  out keeps the      *)
(* configuration, how the call ended, the value it returned and poly1 as   *)
(* it was before.                                                          *)
(***************************************************************************)
\* the polynomials with at most len coefficients that the constructor builds
Built(P, len) == {gfpoly(P, l) : l \in UNION {[1..k -> 0..(P - 1)] : k \in 0..len}}

DivInit ==
    /\ PInit
    /\ n = 0
    /\ field \in Bases
    /\ poly \in Built(field, MaxCoef)
    /\ verdict = [t \in Tests |-> ""]
    /\ NoCheck
    /\ other \in Built(field, MaxCoef - 1)
    /\ arg = 0
    /\ op = ""
    /\ out = <<>>
    /\ NoField

\* gfpoly::quotient_remainder in a build with CHECK_FIELD compiled in
\* (checked) or out.  Without the check a zero divisor reaches division(),
\* where n = v.size() - 1 wraps around and v.m_data[n] is read outside the
\* empty vector: undefined behaviour, here the end of the process or the
\* return of any pair of polynomials.
quotient_remainder_built(P, dividend, divisor, checked) ==
    IF is_zero(divisor) /\ ~checked
    THEN {[ended |-> "terminated", value |-> <<(<<>>), (<<>>)>>]}
         \cup {[ended |-> "returned", value |-> <<q, r>>] :
                  q \in Built(P, 1), r \in Built(P, 1)}
    ELSE IF Thrown(Head(quotient_remainder(P, dividend, divisor)))
    THEN {[ended |-> "threw", value |-> <<(<<>>), (<<>>)>>]}
    ELSE {[ended |-> "returned",
           value |-> quotient_remainder(P, dividend, divisor)]}

\* the record of a division that ended as qr says, with the value that the
\* operator takes from the pair
Divided(name, checked, qr, value) ==
    /\ op' = name
    /\ out' = [checked |-> checked, ended |-> qr.ended, before |-> poly,
               value |-> IF qr.ended = "returned" THEN value ELSE <<>>]
    /\ UNCHANGED <<arg, other>>
    /\ PolyFrame

\* poly1 / other
d_divide ==
    \E checked \in BOOLEAN :
        \E qr \in quotient_remainder_built(field, poly, other, checked) :
            /\ op = ""
            /\ UNCHANGED poly
            /\ Divided("/", checked, qr, Head(qr.value))

\* poly1 % other
d_modulo ==
    \E checked \in BOOLEAN :
        \E qr \in quotient_remainder_built(field, poly, other, checked) :
            /\ op = ""
            /\ UNCHANGED poly
            /\ Divided("%", checked, qr, Head(Tail(qr.value)))

\* poly1 /= other
d_divide_assign ==
    \E checked \in BOOLEAN :
        \E qr \in quotient_remainder_built(field, poly, other, checked) :
            /\ op = ""
            /\ poly' = IF qr.ended = "returned"
                       THEN copy_assign(field, poly, Head(qr.value), FALSE)
                       ELSE poly
            /\ Divided("/=", checked, qr, Head(qr.value))

\* poly1 %= other
d_modulo_assign ==
    \E checked \in BOOLEAN :
        \E qr \in quotient_remainder_built(field, poly, other, checked) :
            /\ op = ""
            /\ poly' = IF qr.ended = "returned"
                       THEN copy_assign(field, poly, Head(Tail(qr.value)),
                                        FALSE)
                       ELSE poly
            /\ Divided("%=", checked, qr, Head(Tail(qr.value)))

DivNext == d_divide \/ d_modulo \/ d_divide_assign \/ d_modulo_assign

DivSpec == DivInit /\ [][DivNext]_vars

(***************************************************************************)
(* gcd called on two polynomials in both orders: each is built by the      *)
(* constructor, a few operators of gfpoly are applied to them (arg counts  *)
(* them), and out holds what gcd(poly1, other) and gcd(other, poly1) have  *)
(* returned.                                                               *)
(***************************************************************************)
\* largest number of coefficients of an argument of gcd
MaxGcdCoef == 4
\* largest number of operators applied to the arguments before gcd
MaxGcdSteps == 3

\* gfpoly poly1(field, l), other(field, l2)
GcdInit ==
    /\ PInit
    /\ n = 0
    /\ field \in Bases
    /\ poly \in Built(field, MaxGcdCoef)
    /\ other \in Built(field, MaxGcdCoef)
    /\ verdict = [t \in Tests |-> ""]
    /\ NoCheck
    /\ arg = 0
    /\ op = ""
    /\ out = <<>>
    /\ NoField

\* an operator is applied to an argument of gcd
GcdStep ==
    /\ op = ""
    /\ arg < MaxGcdSteps
    /\ arg' = arg + 1
    /\ UNCHANGED <<op, out>>
    /\ PolyFrame

\* poly1 = -poly1
c_negate ==
    /\ poly' = negate(field, poly)
    /\ UNCHANGED other
    /\ GcdStep

\* other = -other
c_negate_other ==
    /\ other' = negate(field, other)
    /\ UNCHANGED poly
    /\ GcdStep

\* poly1 <<= sh, the result within the bound on the coefficients
c_shift_left ==
    /\ \E sh \in 1..MaxGcdCoef :
           /\ Len(poly) + sh <= MaxGcdCoef
           /\ poly' = shift_left(poly, sh)
    /\ UNCHANGED other
    /\ GcdStep

\* poly1 += 1
c_plus_scalar ==
    /\ poly' = transform_scalar(field, poly, 1, 1)
    /\ UNCHANGED other
    /\ GcdStep

\* gcd(poly1, other) and gcd(other, poly1)
c_gcd ==
    /\ op = ""
    /\ out' = <<gcd(field, poly, other), gcd(field, other, poly)>>
    /\ op' = "gcd"
    /\ UNCHANGED <<poly, other, arg>>
    /\ PolyFrame

GcdNext ==
    \/ c_negate
    \/ c_negate_other
    \/ c_shift_left
    \/ c_plus_scalar
    \/ c_gcd

GcdSpec == GcdInit /\ [][GcdNext]_vars

(***************************************************************************)
(* Stream input: a polynomial poly1 is built and operator>> reads it from  *)
(* a stream that holds a text.  out keeps the text, the polynomial before  *)
(* the call and whether the call threw.                                    *)
(***************************************************************************)
\* largest number of characters of a text
MaxText == 5
\* the characters of the texts
Alphabet == {"{", "}", ",", " ", "\n", "-", "1", "2"}

Texts == UNION {[1..len -> Alphabet] : len \in 0..MaxText}

ReadInit ==
    /\ PInit
    /\ n = 0
    /\ field \in Bases
    /\ poly = <<>>
    /\ verdict = [t \in Tests |-> ""]
    /\ NoCheck
    /\ NoCall
    /\ made = ""
    /\ num = 0
    /\ stream \in Texts

\* poly1 = gfpoly(field, value)
r_construct ==
    \E value \in 0..(field - 1) :
        /\ op = ""
        /\ poly' = gfpoly_value(field, value)
        /\ Called("gfpoly", value, gfpoly_value(field, value))

\* std::stringstream(text) >> poly1; the uninitialised tmp is read only
\* when the stream holds no character
r_read ==
    \E junk \in IF stream = <<>> THEN Alphabet ELSE {"{"} :
        /\ op # ">>"
        /\ op' = ">>"
        /\ arg' = 0
        /\ out' = [before |-> poly, threw |-> read_vector(stream, junk).threw]
        /\ poly' = IF read_vector(stream, junk).threw THEN poly
                   ELSE copy_assign(field, poly,
                                    gfpoly(field,
                                           read_vector(stream, junk).vec),
                                    FALSE)
        /\ UNCHANGED other
        /\ PolyFrame

ReadNext == r_construct \/ r_read

ReadSpec == ReadInit /\ [][ReadNext]_vars

(***************************************************************************)
(* Fields and field elements: make_gf is called with a base, and on the    *)
(* field it returns one element num is built and the operators of gfn are  *)
(* applied to it one after the other.  The right operand of an operator    *)
(* is a temporary gfn(field, v) or -gfn(field, v).  op is the operator     *)
(* applied last and arg its argument; a compound assignment changes num    *)
(* in place, an expression that returns a new element initialises a new    *)
(* object, which is num from then on.                                      *)
(***************************************************************************)
\* largest base handed to make_gf
MaxBase == 9
\* largest integer handed to a constructor, a scalar operator or the stream
MaxVal == 12

FieldInit == PInit /\ n = 0 /\ NoPoly

\* what a call on fields and elements leaves alone
FieldFrame == UNCHANGED <<poly, verdict, cvars, other, out, stream, pvars>>

\* a field object exists and its base is positive (gfn divides by the base)
HasField == made = "returned" /\ field > 0

\* the stored residues of the temporaries gfn(field, v) and -gfn(field, v)
Operands == 0..field

\* the element num after an operator that returned value, or threw
KeptNum(value) == IF value = Throw THEN num ELSE value

\* the record of a call of an operator of num with argument k
CalledNum(name, k) ==
    /\ op' = name
    /\ arg' = k
    /\ UNCHANGED <<field, made>>
    /\ FieldFrame

\* gfp field = make_gf(base), in a build with or without NDEBUG
f_make_gf ==
    \E base \in 0..MaxBase, ndebug \in BOOLEAN :
        /\ made' = make_gf(base, ndebug)
        /\ field' = IF make_gf(base, ndebug) = "returned" THEN base ELSE 0
        /\ num' = 0
        /\ op' = "make_gf"
        /\ arg' = base
        /\ FieldFrame

\* gfn num(field, val)
g_construct ==
    \E val \in 0..MaxVal :
        /\ HasField
        /\ num' = gfn(field, val)
        /\ CalledNum("gfn", val)

\* num = b
g_assign ==
    \E b \in Operands :
        /\ HasField
        /\ num' = gfn_assign(field, b)
        /\ CalledNum("=", b)

\* gfn next = +num
g_unary_plus ==
    /\ HasField
    /\ num' = gfn_unary_plus(num)
    /\ CalledNum("+num", 0)

\* gfn next = -num
g_unary_minus ==
    /\ HasField
    /\ num' = gfn_negate(field, num)
    /\ CalledNum("-num", 0)

\* num += b and gfn next = num + b
g_plus ==
    \E b \in Operands :
        /\ HasField
        /\ num' = gfn_plus(field, num, b)
        /\ CalledNum("+", b)

\* num -= b and gfn next = num - b
g_minus ==
    \E b \in Operands :
        /\ HasField
        /\ num' = gfn_minus(field, num, b)
        /\ CalledNum("-", b)

\* num *= b and gfn next = num * b
g_times ==
    \E b \in Operands :
        /\ HasField
        /\ num' = gfn_times(field, num, b)
        /\ CalledNum("*", b)

\* num /= b and gfn next = num / b
g_divide ==
    \E b \in Operands :
        /\ HasField
        /\ num' = KeptNum(gfn_divide(field, num, b))
        /\ CalledNum("/", b)

\* num += val, num -= val, num *= val, num /= val with an integer val
g_plus_value ==
    \E val \in 0..MaxVal :
        /\ HasField
        /\ num' = gfn_plus(field, num, val % field)
        /\ CalledNum("+ value", val)

g_minus_value ==
    \E val \in 0..MaxVal :
        /\ HasField
        /\ num' = gfn_minus(field, num, val % field)
        /\ CalledNum("- value", val)

g_times_value ==
    \E val \in 0..MaxVal :
        /\ HasField
        /\ num' = gfn_times(field, num, val % field)
        /\ CalledNum("* value", val)

g_divide_value ==
    \E val \in 0..MaxVal :
        /\ HasField
        /\ num' = KeptNum(gfn_divide(field, num, val % field))
        /\ CalledNum("/ value", val)

\* ++num and num++
g_increment ==
    /\ HasField
    /\ num' = gfn_increment(field, num)
    /\ CalledNum("++", 0)

\* --num and num--
g_decrement ==
    /\ HasField
    /\ num' = gfn_decrement(field, num)
    /\ CalledNum("--", 0)

\* is >> num, the stream holding the digits of text
g_input ==
    \E text \in 0..MaxVal :
        /\ HasField
        /\ num' = gfn_input(field, text)
        /\ CalledNum(">>", text)

\* field->mul_inv(val) and, when it returns w, field->mul_inv(w)
f_mul_inv ==
    \E val \in 0..MaxVal :
        /\ HasField
        /\ op' = "mul_inv"
        /\ arg' = val
        /\ out' = IF mul_inv(field, val) = Throw THEN ThrowPoly
                  ELSE <<mul_inv(field, val),
                         mul_inv(field, mul_inv(field, val))>>
        /\ UNCHANGED <<field, made, num, stream, poly, verdict, cvars, other,
                       pvars>>

FieldNext ==
    \/ f_make_gf
    \/ f_mul_inv
    \/ g_construct
    \/ g_assign
    \/ g_unary_plus
    \/ g_unary_minus
    \/ g_plus
    \/ g_minus
    \/ g_times
    \/ g_divide
    \/ g_plus_value
    \/ g_minus_value
    \/ g_times_value
    \/ g_divide_value
    \/ g_increment
    \/ g_decrement
    \/ g_input

FieldSpec == FieldInit /\ [][FieldNext]_vars

\* The polynomial over GF(P) that the coefficient vector p denotes, as the
\* sequence of its residues without trailing zeros.
Denoted(P, p) ==
    LET r == [k \in 1..Len(p) |-> p[k] % P]
        nz == {k \in 1..Len(r) : r[k] # 0}
    IN  IF nz = {} THEN <<>> ELSE [k \in 1..Max(nz) |-> r[k]]

\* the non-constant polynomials over GF(P) with at most len coefficients
NonConstant(P, len) ==
    {g \in UNION {[1..l -> 0..(P - 1)] : l \in 2..len} : g[Len(g)] # 0}

RECURSIVE Sum(_, _)
Sum(f, S) ==
    IF S = {} THEN 0 ELSE LET x == CHOOSE y \in S : TRUE
                          IN  f[x] + Sum(f, S \ {x})

\* the product of g and h in GF(P)[x]
Product(P, g, h) ==
    [k \in 1..(Len(g) + Len(h) - 1) |->
        LET S == {a \in 1..Len(g) : k + 1 - a \in 1..Len(h)}
        IN  Sum([a \in S |-> g[a] * h[k + 1 - a]], S) % P]

\* per field, the products of two non-constant polynomials, degree <= MaxDeg
Reducibles ==
    [P \in Bases |->
        {Product(P, g, h) : <<g, h>> \in
            {gh \in NonConstant(P, MaxDeg) \X NonConstant(P, MaxDeg) :
                Len(gh[1]) + Len(gh[2]) - 1 <= MaxDeg + 1}}]

\* irreducible by definition: non-constant and not a product of two
\* non-constant polynomials
Irreducible(P, p) ==
    /\ Len(Denoted(P, p)) >= 2
    /\ Denoted(P, p) \notin Reducibles[P]

\* the stored vector is in canonical form: residues below P, no trailing zero
Canonical(P, p) ==
    /\ \A k \in 1..Len(p) : p[k] < P
    /\ p = <<>> \/ p[Len(p)] # 0

AllRun == \A t \in Tests : verdict[t] # ""

\* the inverse of a nonzero residue of GF(P)
Inverse(P, a) == CHOOSE y \in 1..(P - 1) : (y * a) % P = 1

\* x * r reduced modulo f in GF(P)[x], for r of degree below deg f
TimesX(P, r, f) ==
    LET s == <<0>> \o r
        c == (s[Len(s)] * Inverse(P, f[Len(f)])) % P
    IN  IF Len(s) < Len(f) THEN s
        ELSE Denoted(P, [k \in 1..Len(s) |-> s[k] + (P - c) * f[k]])

\* x^k modulo f in GF(P)[x] by plain reduction, f of degree at least one
RECURSIVE XPowMod(_, _, _)
XPowMod(P, k, f) ==
    IF k = 0 THEN <<1>> ELSE TimesX(P, XPowMod(P, k - 1, f), f)

\* g - h in GF(P)[x]
Difference(P, g, h) ==
    Denoted(P, [k \in 1..Max({Len(g), Len(h)}) |->
                   (IF k <= Len(g) THEN g[k] ELSE 0)
                   + P - (IF k <= Len(h) THEN h[k] ELSE 0)])

\* the number of times the loop of x_pow_mod_sub finds res == xn
RECURSIVE Returns_to_xn(_, _, _, _, _)
Returns_to_xn(P, pow, mod, res, d) ==
    LET nn == Len(mod) - 1
        tmp == nn - degree(res)
        pow1 == pow - tmp
        hit == equal(shift_left(res, tmp), shift_left(<<1>>, nn))
        d1 == IF hit THEN (IF d = 0 THEN pow1 ELSE d - pow1) ELSE d
        pow2 == IF hit /\ d # 0 /\ d1 # 0 THEN pow1 % d1 ELSE pow1
    IN  IF is_zero(res) \/ pow + degree(res) < nn THEN 0
        ELSE (IF hit THEN 1 ELSE 0)
             + Returns_to_xn(P, pow2, mod,
                             remainder(P, shift_left(res, tmp), mod), d1)

\* A step of the thread of pod w (w ranges over a constant set in LiveSpec).
WorkerOf(w) == w \in Pods /\ Worker(w)

(***************************************************************************)
(* Fair scheduling: every thread that can run infinitely often does run.   *)
(* Strong fairness, because a thread blocked on a mutex is enabled only    *)
(* while the mutex is free.  Spurious wake-ups are allowed but are not     *)
(* fair, so no progress may depend on one.                                 *)
(***************************************************************************)
LiveSpec ==
    /\ Init
    /\ [][Next]_vars
    /\ SF_vars(Coordinator)
    /\ \A w \in 1..pipeline(MaxN) : SF_vars(WorkerOf(w))

\* positions of the coordinator inside the multi-threaded part of pipe()
PipePcs == {"lock", "seed_input", "seed_set_data", "await", "wait_idle",
            "callback", "clear", "input", "set_data", "await_end", "wait_end",
            "drain_callback", "drain_clear"}
SerialPcs == {"s_input", "s_check", "s_callback"}

\* pipe() has returned at least once and the coordinator is outside pipe()
Returned == pc = "idle" /\ runs >= 1

\* candidates drawn by the current (or last) pipe() call
RunCandidates == (run_in + 1)..nin

\* callback invocations of the current (or last) pipe() call
RunCallbacks == SumOver(cb, RunCandidates)

----------------------------------------------------------------------------
\* C1: with at least one worker thread, once callback has returned true in a
\* run, input() is not called again in that run; with strict = true callback
\* is not called again either, and the coordinator's step taken when no pod
\* is busy any more is the return of pipe().
C1_NoInputAfterStop ==
    [][(m_pods >= 1 /\ stopped) =>
          /\ nin' = nin
          /\ (strict => cb' = cb)
          /\ (strict /\ pc = "await_end" /\ countBusy = 0 /\ pc' # pc
                => pc' = "idle" /\ runs' = runs + 1)]_vars

\* a strict run of two pods has stopped while the stream could still deliver
C1_Witness ==
    /\ Returned /\ stopped /\ strict
    /\ m_pods = 2
    /\ nin < MaxInputs

\* C2 (safety part): the coordinator never sits un-notified on the shared
\* condvar while a pod it waits for is idle (no lost wake-up).
NoLostWakeup ==
    /\ (pc = "wait_idle" /\ ~s_cond => countBusy = m_pods)
    /\ (pc = "wait_end" /\ ~s_cond => countBusy # 0)

\* C2: under fair scheduling pipe() returns for every number of pods and
\* every interleaving: no wake-up is lost, and the coordinator (shared mutex
\* held, private mutex wanted) and a worker (private held, shared wanted)
\* never block each other for ever.
C2_PipeReturns ==
    /\ [](NoLostWakeup)
    /\ (pc \in PipePcs) ~> (pc = "idle")

\* the coordinator holds the shared mutex and wants the private mutex of a
\* pod whose thread still holds it
C2_Witness ==
    /\ pc = "set_data"
    /\ s_mutex = "pipe"
    /\ m_mutex[i] = thread(i)

\* C3: a pair handed to callback belongs to a pod that is not running check,
\* its result is present and is the result of check on the input in the
\* slot; no input is checked twice and, once pipe() has returned, every
\* input that was handed to a pod has been checked exactly once.
C3_PairIsChecked ==
    /\ pc \in {"callback", "drain_callback"} =>
          /\ wpc[i] \notin {"check", "lock_shared", "notify"}
          /\ ~m_busy[i]
          /\ m_val[i] # None /\ m_res[i] # None
          /\ m_res[i] = m_cf(m_val[i])
          /\ chk[m_val[i]] = 1
    /\ \A c \in Candidates : chk[c] <= 1
    /\ \A w \in Pods : m_val[w] # None /\ ~m_busy[w] => chk[m_val[w]] = 1
    /\ pc = "idle" => \A c \in 1..nin : chk[c] = 1

\* a pod that was given a second input is reported to callback
C3_Witness ==
    /\ pc = "callback"
    /\ m_val[i] > m_pods

C5_DrainReportsAll ==
    /\ \A c \in Candidates : cb[c] <= 1
    /\ (Returned /\ ~strict /\ m_pods >= 1) =>
          /\ \A c \in RunCandidates : cb[c] = 1
          /\ RunCallbacks = loop_cb + held
          /\ \A w \in Pods : m_val[w] = None /\ m_res[w] = None

\* a non-strict run of two pods returned after draining another pod
C5_Witness ==
    /\ Returned /\ ~strict
    /\ m_pods = 2
    /\ held = 1
    /\ loop_cb >= 2

\* C6: when pipe() has returned (strict or not) no pod is busy and no check
\* is running: every check started in the run is complete.
C6_NoBusyAtReturn ==
    Returned =>
        /\ countBusy = 0
        /\ \A w \in Pods : wpc[w] \notin {"check", "lock_shared", "notify"}
        /\ \A c \in RunCandidates : chk[c] = 1

\* pipe() returned although another pod was given work after the first one
C6_Witness ==
    /\ Returned
    /\ m_pods = 2
    /\ nin - run_in > m_pods

\* C7: a pipeline built with n = 0 or n = 1 has no pod; pipe() then calls
\* input, check and callback in that order, once each per candidate, on the
\* calling thread, and returns right after the first callback that is true.
C7_SingleThreaded ==
    n <= 1 =>
        /\ m_pods = 0 /\ DOMAIN wpc = {}
        /\ pc \in SerialPcs \cup {"idle", "destroyed"}
        /\ \A c \in Candidates : chk[c] <= 1 /\ cb[c] <= 1
        /\ LET ins == nin
               chks == SumOver(chk, Candidates)
               cbs == SumOver(cb, Candidates)
           IN  /\ pc = "s_input" => (chks = ins /\ cbs = ins /\ ~stopped)
               /\ pc = "s_check" => (chks = ins - 1 /\ cbs = ins - 1 /\ ~stopped)
               /\ pc = "s_callback" => (chks = ins /\ cbs = ins - 1 /\ ~stopped)
               /\ pc \in {"idle", "destroyed"} => (chks = ins /\ cbs = ins)
        /\ pc \in SerialPcs => input = nin
        /\ pc = "s_callback" => result = m_cf(input)

\* n = 1: a run that needed two candidates has returned
C7_Witness ==
    /\ n = 1
    /\ Returned /\ stopped
    /\ nin - run_in = 2

\* C8 (safety part): once the destructor joins, every pod has its terminate
\* flag set and no worker is left waiting without a pending notification.
TerminateSignalled ==
    pc \in {"join", "destroyed"} =>
        \A w \in Pods : m_terminate[w] /\ (wpc[w] = "wait" => m_cond[w])

\* C8: the destructor sets every terminate flag and signals every private
\* condvar, and under fair scheduling every worker leaves its loop and every
\* join completes, whether or not pipe() was ever called.
C8_DestructorJoins ==
    /\ [](TerminateSignalled)
    /\ (pc = "terminate") ~> (pc = "destroyed" /\ \A w \in Pods : wpc[w] = "exited")

\* two pods destroyed and joined without pipe() ever being called
C8_Witness ==
    /\ pc = "destroyed"
    /\ runs = 0
    /\ m_pods = 2
    /\ \A w \in Pods : wpc[w] = "exited"

\* On a polynomial whose stored vector is canonical the three tests return
\* the same boolean.
CanonicalAgree ==
    (Canonical(field, poly) /\ AllRun) =>
        \E b \in {"true", "false"} : \A t \in Tests : verdict[t] = b

\* On a polynomial whose stored vector is canonical each test returns true
\* exactly when the polynomial is irreducible by definition.
CanonicalDecided ==
    Canonical(field, poly) =>
        \A t \in Tests :
            verdict[t] # "" => verdict[t] = Returns(Irreducible(field, poly))

\* C9: for every polynomial over GF(p) within the bound, the zero polynomial,
\* constants and multiples of x included, is_irreducible_berlekamp,
\* is_irreducible_rabin and is_irreducible_benor return the same boolean.
C9_TestsAgree ==
    AllRun => \E b \in {"true", "false"} : \A t \in Tests : verdict[t] = b

\* C10: each test returns, without raising an error, true exactly when the
\* polynomial is irreducible by definition; so false for the zero polynomial,
\* for nonzero constants and for degree > 1 with zero constant term, and true
\* for degree 1.
C10_TestsDecide ==
    \A t \in Tests :
        verdict[t] # "" => verdict[t] = Returns(Irreducible(field, poly))
(***************************************************************************)
(* C11 as stated: whenever is_primitive_definition has returned true on    *)
(* the polynomial, each of the three irreducibility tests has returned     *)
(* true on it; and no result slot filled by a check that make_check_func   *)
(* built holds primitive = true together with irreducible = false.         *)
(***************************************************************************)
C11_PrimitiveIsIrreducible ==
    /\ primitive = "true" => \A t \in Tests : verdict[t] = "true"
    /\ optres # <<>> => ~(optres.primitive /\ ~optres.irreducible)

(***************************************************************************)
(* C11 amended: whenever is_primitive_definition has returned true on the  *)
(* polynomial, each of the three irreducibility tests has returned true on *)
(* it; and no result slot filled by a check built with a primitivity       *)
(* method other than nil holds primitive = true together with              *)
(* irreducible = false.                                                    *)
(***************************************************************************)
C11_PrimitiveIsIrreducibleChecked ==
    /\ primitive = "true" => \A t \in Tests : verdict[t] = "true"
    /\ optres # <<>> /\ check.prim_meth # "nil" =>
           ~(optres.primitive /\ ~optres.irreducible)

\* a polynomial of degree above one that is_primitive_definition accepts,
\* reported primitive by a check built with a test and the definition
C11_Witness ==
    /\ primitive = "true"
    /\ Len(poly) > 2
    /\ optres # <<>>
    /\ check.irr_meth # "nil"
    /\ check.prim_meth = "definition"
    /\ check.at = "returned"
    /\ optres.primitive

(***************************************************************************)
(* C13 as stated: once check has run, the result slot is filled; a method  *)
(* given as nil has left its field true; and when the selected             *)
(* irreducibility test has returned false, primitive is false and          *)
(* is_primitive_definition has not been called.                            *)
(***************************************************************************)
C13_CheckFillsSlot ==
    check # <<>> /\ check.at # "made" =>
        /\ optres # <<>>
        /\ check.irr_meth = "nil" => optres.irreducible
        /\ check.prim_meth = "nil" => optres.primitive
        /\ check.irr_meth # "nil" /\ verdict[check.irr_meth] = "false" =>
               ~optres.primitive /\ "definition" \notin called

(***************************************************************************)
(* C13 amended: once check has run, the result slot is filled; a method    *)
(* given as nil has left its field true; and when a primitivity method is  *)
(* selected and the selected irreducibility test has returned false,       *)
(* primitive is false and is_primitive_definition has not been called.     *)
(***************************************************************************)
C13_CheckFillsSlotSelected ==
    check # <<>> /\ check.at # "made" =>
        /\ optres # <<>>
        /\ check.irr_meth = "nil" => optres.irreducible
        /\ check.prim_meth = "nil" => optres.primitive
        /\ /\ check.irr_meth # "nil"
           /\ check.prim_meth # "nil"
           /\ verdict[check.irr_meth] = "false"
           => ~optres.primitive /\ "definition" \notin called

\* a check built with a test and the definition has run on a polynomial that
\* the test rejects and that is_primitive_definition, called directly, does
\* not throw on
C13_Witness ==
    /\ check # <<>>
    /\ check.at = "returned"
    /\ check.irr_meth # "nil"
    /\ check.prim_meth = "definition"
    /\ verdict[check.irr_meth] = "false"
    /\ optres = [irreducible |-> FALSE, primitive |-> FALSE]
    /\ Len(poly) > 2
(***************************************************************************)
(* C12: x_pow_mod_sub(n, f, sub) has returned (x^n mod f) - sub, the power *)
(* reduced step by step without any shortcut, whenever f has degree at     *)
(* least one and a nonzero constant term and sub has a smaller degree.     *)
(***************************************************************************)
C12_XPowModSub ==
    /\ op = "x_pow_mod_sub"
    /\ Len(poly) >= 2
    /\ poly[1] % field # 0
    /\ Len(other) < Len(poly)
    => out = Difference(field, XPowMod(field, arg, Denoted(field, poly)),
                        Denoted(field, other))

\* the call has skipped a cycle (the loop came back to x^n a second time) and
\* returned a polynomial that is not zero, sub not being zero
C12_Witness ==
    /\ op = "x_pow_mod_sub"
    /\ Len(poly) >= 2
    /\ poly[1] % field # 0
    /\ Len(other) < Len(poly)
    /\ other # <<>>
    /\ Returns_to_xn(field, arg, poly, <<1>>, 0) >= 2
    /\ out # <<>>
    /\ ~Thrown(out)
(***************************************************************************)
(* C14: every polynomial is in canonical form after any sequence of        *)
(* operations: its coefficient sequence is empty or its last coefficient   *)
(* is a nonzero element of the field.  This includes << n applied to the   *)
(* zero polynomial.                                                        *)
(***************************************************************************)
C14_CanonicalForm ==
    \A p \in {poly, other} : p = <<>> \/ p[Len(p)] % field # 0

\* What (a / b) * b + (a % b) has to satisfy; out is <<a / b, a % b, sum>>.
DivisionLaw ==
    /\ ~Thrown(out)
    /\ equal(out[3], poly)
    /\ is_zero(out[2]) \/ Len(out[2]) < Len(other)
    /\ Len(poly) < Len(other) => is_zero(out[1]) /\ equal(out[2], poly)

\* On stored vectors in canonical form the division law holds.
CanonicalDivisionLaw ==
    /\ op = "(a / b) * b + (a % b)"
    /\ Canonical(field, poly)
    /\ Canonical(field, other)
    /\ ~is_zero(other)
    => DivisionLaw

(***************************************************************************)
(* C15: for every polynomial a and every nonzero polynomial b over the     *)
(* same field, (a / b) * b + (a % b) = a, the remainder is zero or of      *)
(* degree below the degree of b, and when a has fewer coefficients than b  *)
(* the quotient is zero and the remainder is a.                            *)
(***************************************************************************)
C15_DivisionIdentity ==
    op = "(a / b) * b + (a % b)" /\ Denoted(field, other) # <<>> => DivisionLaw

\* For a canonical polynomial that is not zero the round trip of the shifts
\* succeeds and gives the polynomial back.
NonzeroShiftRoundTrip ==
    op = "(a << n) >> n" /\ Canonical(field, poly) /\ ~is_zero(poly) =>
        ~Thrown(out) /\ equal(out, poly)

(***************************************************************************)
(* C16: for every polynomial a, the zero polynomial included, and every    *)
(* n >= 0, (a << n) >> n succeeds and equals a.                            *)
(***************************************************************************)
C16_ShiftRoundTrip ==
    op = "(a << n) >> n" => ~Thrown(out) /\ equal(out, poly)

\* some coefficient of a at an index below sh is not zero
DiscardsNonzero(a, sh) == \E k \in 1..sh : k <= Len(a) /\ a[k] # 0

\* On a polynomial with at least one coefficient and for n <= degree,
\* >>= throws exactly when it would discard a nonzero coefficient.
NonzeroShiftRightExact ==
    op = ">>=" /\ ~is_zero(out.before) /\ arg <= degree(out.before) =>
        (out.threw <=> DiscardsNonzero(out.before, arg))

\* >>= leaves the polynomial unchanged when it throws and otherwise leaves
\* the coefficients from index n upward.
ShiftRightEffect ==
    op = ">>=" =>
        /\ out.threw => poly = out.before
        /\ ~out.threw => poly = SubSeq(out.before, arg + 1, Len(out.before))

(***************************************************************************)
(* C17: a >>= n throws exactly when some coefficient of a at an index      *)
(* below n is not zero; otherwise the polynomial becomes the one whose     *)
(* coefficient i is a[i + n]; after a throw the polynomial is unchanged.   *)
(***************************************************************************)
C17_ShiftRightExact ==
    op = ">>=" =>
        /\ out.threw <=> DiscardsNonzero(out.before, arg)
        /\ out.threw => poly = out.before
        /\ ~out.threw => poly = SubSeq(out.before, arg + 1, Len(out.before))

(***************************************************************************)
(* C18: for n <= degree(a), a >>= n does not throw and leaves the          *)
(* coefficients of a from index n upward, whatever the n lowest            *)
(* coefficients are.                                                       *)
(***************************************************************************)
C18_ShiftRightDrops ==
    /\ op = ">>="
    /\ Canonical(field, out.before)
    /\ ~is_zero(out.before)
    /\ arg <= degree(out.before)
    => /\ ~out.threw
       /\ poly = SubSeq(out.before, arg + 1, Len(out.before))

\* the base is a prime number
IsPrime(p) == p >= 2 /\ \A d \in 2..(p - 1) : p % d # 0

\* The stored residue never exceeds p, and a step that leaves p itself is a
\* unary minus, or started from p and is a unary plus or a division that
\* threw.
OnlyMinusLeavesBase ==
    [][HasField' =>
          /\ num' \in 0..field'
          /\ num' = field' =>
                \/ op' = "-num"
                \/ num = field /\ op' \in {"+num", "/", "/ value"}]_vars

(***************************************************************************)
(* C19: after every field-element operation the stored residue lies in     *)
(* [0, p); in particular the unary minus of the zero element is the zero   *)
(* element.                                                                *)
(***************************************************************************)
C19_ResidueInRange ==
    HasField /\ IsPrime(field) => num \in 0..(field - 1)

\* make_gf throws exactly for the composite bases, and returns a field for
\* every prime and for 1.
MakeGfThrowsOnComposite ==
    op = "make_gf" /\ arg >= 1 =>
        /\ made = "threw" <=> (arg >= 2 /\ ~IsPrime(arg))
        /\ made = "returned" <=> (arg = 1 \/ IsPrime(arg))

(***************************************************************************)
(* C20: make_gf(p) fails exactly when p = 0, p = 1 or p is composite, and  *)
(* returns a field for every prime p; no field object exists after a       *)
(* failed construction.                                                    *)
(***************************************************************************)
C20_MakeFieldFails ==
    op = "make_gf" =>
        /\ made # "returned" <=> ~IsPrime(arg)
        /\ made # "returned" => field = 0

(***************************************************************************)
(* C21: for every prime p and every v in [1, p) the table built by gf::gf  *)
(* gives v * mul_inv(v) mod p = 1 and mul_inv(mul_inv(v)) = v, and         *)
(* mul_inv(v) throws when v mod p = 0.                                     *)
(***************************************************************************)
C21_InverseTable ==
    op = "mul_inv" /\ IsPrime(field) =>
        /\ arg % field = 0 => Thrown(out)
        /\ arg \in 1..(field - 1) =>
              /\ ~Thrown(out)
              /\ (arg * Head(out)) % field = 1
              /\ Head(Tail(out)) = arg

\* mul_inv has returned the inverse of an element that is not its own
\* inverse, in a field of at least five elements
C21_Witness ==
    /\ op = "mul_inv"
    /\ IsPrime(field)
    /\ field >= 5
    /\ arg \in 2..(field - 2)
    /\ ~Thrown(out)
    /\ Head(out) # arg

\* the characters that separate the integers of a text
Separators == {",", " ", "\n"}

\* the text is some whitespace, "{", digits and separators, "}" and a rest:
\* a is the position of the opening and b of the closing brace
Braces(text) ==
    {ab \in (1..Len(text)) \X (1..Len(text)) :
        /\ ab[1] < ab[2]
        /\ text[ab[1]] = "{"
        /\ text[ab[2]] = "}"
        /\ \A k \in 1..(ab[1] - 1) : text[k] \in {" ", "\n"}
        /\ \A k \in (ab[1] + 1)..(ab[2] - 1) :
              isdigit(text[k]) \/ text[k] \in Separators}

WellFormed(text) == Braces(text) # {}

\* the characters between the braces of a well-formed text
Body(text) ==
    LET ab == CHOOSE x \in Braces(text) : TRUE
    IN  SubSeq(text, ab[1] + 1, ab[2] - 1)

\* the integers that a body spells, in order: its maximal runs of digits
Integers(body) ==
    LET first == {k \in 1..Len(body) :
                    isdigit(body[k]) /\ (k = 1 \/ ~isdigit(body[k - 1]))}
        last(k) == Max({e \in k..Len(body) :
                          \A j \in k..e : isdigit(body[j])})
        nth(j) == CHOOSE k \in first :
                      Cardinality({x \in first : x < k}) = j - 1
    IN  [j \in 1..Cardinality(first) |->
            stream_number(SubSeq(body, nth(j), last(nth(j))))]

\* operator>> throws exactly on the texts that are not well formed, and then
\* leaves the polynomial unchanged.
ReaderRejectsMalformed ==
    op = ">>" =>
        /\ out.threw <=> ~WellFormed(stream)
        /\ out.threw => poly = out.before

\* When a separator follows every integer of a well-formed text, operator>>
\* reads all the integers.
ReaderReadsSeparated ==
    /\ op = ">>"
    /\ WellFormed(stream)
    /\ Body(stream) # <<>> => ~isdigit(Body(stream)[Len(Body(stream))])
    => poly = gfpoly(field, Integers(Body(stream)))

(***************************************************************************)
(* C22: from a text "{", integers separated by commas or whitespace, "}"   *)
(* the reader produces the polynomial of exactly those integers, in order, *)
(* reduced mod p and canonicalised, whatever character follows each        *)
(* integer, the closing brace included; on a malformed text it throws and  *)
(* leaves the polynomial unchanged.                                        *)
(***************************************************************************)
C22_Reader ==
    op = ">>" =>
        IF WellFormed(stream)
        THEN ~out.threw /\ poly = gfpoly(field, Integers(Body(stream)))
        ELSE out.threw /\ poly = out.before

\* a division of poly1 by the zero polynomial has been run
DividedByZero == op \in {"/", "%", "/=", "%="} /\ is_zero(other)

\* With CHECK_FIELD compiled in, a division by the zero polynomial throws
\* and leaves poly1 unchanged.
CheckedDivisionByZeroThrows ==
    DividedByZero /\ out.checked => out.ended = "threw" /\ poly = out.before

(***************************************************************************)
(* C23: for every polynomial a, a / b, a % b, a /= b and a %= b with b the *)
(* zero polynomial end in an error rather than a result, and the compound  *)
(* forms leave a unchanged.                                                *)
(***************************************************************************)
C23_DivisionByZero ==
    DividedByZero => out.ended = "threw" /\ poly = out.before

\* The three irreducibility tests have returned true.
AllTrue == \A t \in Tests : verdict[t] = "true"

(***************************************************************************)
(* C24: for f = 2x^2 + x + 1 over GF(3), coefficients [1, 1, 2], the three *)
(* irreducibility tests return true and is_primitive_definition returns    *)
(* false.                                                                  *)
(***************************************************************************)
C24_IrreducibleNotPrimitive ==
    field = 3 /\ poly = <<1, 1, 2>> /\ primitive # "" =>
        AllTrue /\ primitive = "false"

\* C24 as the code has it: for f = 2x^2 + x + 1 over GF(3) the three tests
\* return true and so does is_primitive_definition (f is twice the primitive
\* polynomial x^2 + 2x + 2); for x^2 + 1, coefficients [1, 0, 1], the three
\* tests return true and is_primitive_definition returns false.
C24_ScaledPrimitive ==
    /\ field = 3 /\ poly = <<1, 1, 2>> /\ primitive # "" =>
          AllTrue /\ primitive = "true"
    /\ field = 3 /\ poly = <<1, 0, 1>> /\ primitive # "" =>
          AllTrue /\ primitive = "false"

\* is_primitive_definition has run on 2x^2 + x + 1 over GF(3)
C24_Witness == field = 3 /\ poly = <<1, 1, 2>> /\ primitive # ""

\* the polynomial under test is c * x with c not zero
ScalarTimesX == Len(Denoted(field, poly)) = 2 /\ Denoted(field, poly)[1] = 0

\* On stored vectors in canonical form is_primitive_definition returns true
\* for c * x and false for x + 1 over GF(2), which the three tests accept.
CanonicalPrimitiveEdgeCases ==
    Canonical(field, poly) /\ primitive # "" =>
        /\ ScalarTimesX => primitive = "true"
        /\ field = 2 /\ poly = <<1, 1>> => AllTrue /\ primitive = "false"

(***************************************************************************)
(* C25: is_primitive_definition returns true for every polynomial c * x    *)
(* with c not zero, over every field, and returns false for x + 1 over     *)
(* GF(2), for which the three irreducibility tests return true.            *)
(***************************************************************************)
C25_PrimitiveEdgeCases ==
    /\ ScalarTimesX /\ primitive # "" => primitive = "true"
    /\ field = 2 /\ Denoted(field, poly) = <<1, 1>> /\ primitive # "" =>
          AllTrue /\ primitive = "false"

\* A polynomial whose stored vector is canonical and its product with a
\* nonzero scalar get the same answer from is_primitive_definition.
CanonicalScalingInvariant ==
    op = "is_primitive_definition" /\ Canonical(field, poly) =>
        Head(out) = Head(Tail(out))

(***************************************************************************)
(* C26: is_primitive_definition(c * f) = is_primitive_definition(f) for    *)
(* every polynomial f and every nonzero c in GF(p).                        *)
(***************************************************************************)
C26_ScalingInvariant ==
    op = "is_primitive_definition" => Head(out) = Head(Tail(out))

\* per field, the pairs <<d, f>> of nonzero polynomials with at most
\* MaxGcdCoef coefficients where d divides f
Dvd ==
    [P \in Bases |->
        LET Nonzero == Built(P, MaxGcdCoef) \ {<<>>}
        IN  {<<gh[1], Product(P, gh[1], gh[2])>> :
                gh \in {x \in Nonzero \X Nonzero :
                           Len(x[1]) + Len(x[2]) - 1 <= MaxGcdCoef}}]

\* d divides f in GF(P)[x], both nonzero
Divides(P, d, f) == <<d, f>> \in Dvd[P]

\* g is a greatest common divisor of a and b
IsGcd(P, g, a, b) ==
    /\ g # <<>>
    /\ Divides(P, g, a)
    /\ Divides(P, g, b)
    /\ \A d \in Built(P, MaxGcdCoef) \ {<<>>} :
           Divides(P, d, a) /\ Divides(P, d, b) => Divides(P, d, g)

\* g and h differ by a nonzero scalar factor
Associate(P, g, h) ==
    \E c \in 1..(P - 1) : h = [k \in 1..Len(g) |-> (c * g[k]) % P]

\* gcd has been called on two polynomials that are not zero
GcdOfNonzero ==
    /\ op = "gcd"
    /\ Denoted(field, poly) # <<>>
    /\ Denoted(field, other) # <<>>

\* gcd(m, n) and gcd(n, m) have returned a greatest common divisor of the
\* two, the same up to a nonzero scalar factor
GcdReturned ==
    /\ ~Thrown(Head(out))
    /\ ~Thrown(Head(Tail(out)))
    /\ IsGcd(field, Denoted(field, Head(out)), Denoted(field, poly),
             Denoted(field, other))
    /\ Associate(field, Denoted(field, Head(out)),
                 Denoted(field, Head(Tail(out))))

\* the leading coefficient of the stored vector is not zero in GF(P)
LeadingNonzero(P, p) == p # <<>> /\ p[Len(p)] % P # 0

\* gcd is right for polynomials whose stored leading coefficient is not a
\* multiple of p, whatever the other coefficients are stored as.
GcdOfLeadingNonzero ==
    /\ op = "gcd"
    /\ LeadingNonzero(field, poly)
    /\ LeadingNonzero(field, other)
    => GcdReturned

InputPcs == {"s_input", "seed_input", "input"}
\* positions of the coordinator from which its next step calls callback
CallbackPcs == {"s_callback", "callback", "drain_callback"}

\* the step calls input once and nothing else
CallsInput == nin' = nin + 1 /\ cb' = cb

\* the step calls callback once, on one candidate, and nothing else
CallsCallback ==
    /\ nin' = nin
    /\ \E c \in Candidates : cb' = [cb EXCEPT ![c] = @ + 1]

(***************************************************************************)
(* C28: for every number of pods, input and callback are called only by    *)
(* the thread that called pipe(), one call at a time: a step that calls    *)
(* one of them is a step of the coordinator inside pipe(), it makes one    *)
(* call, and no worker moves in it; a step of a worker calls neither, and  *)
(* the only function a worker calls is check, on the input of its own pod. *)
(***************************************************************************)
C28_CallsOnCaller ==
    [][/\ (nin' # nin \/ cb' # cb) =>
              /\ wpc' = wpc
              /\ pc' # pc
              /\ (pc \in InputPcs /\ CallsInput)
                   \/ (pc \in CallbackPcs /\ CallsCallback)
       /\ wpc' # wpc =>
              /\ pc' = pc /\ nin' = nin /\ cb' = cb
              /\ chk' # chk =>
                    \E w \in Pods :
                        /\ wpc[w] = "check" /\ wpc'[w] # "check"
                        /\ chk' = [chk EXCEPT ![m_val[w]] = @ + 1]]_vars

\* callback has been called in this run and is about to be called again
\* while the worker of another pod is running check
C28_Witness ==
    /\ pc = "callback"
    /\ loop_cb >= 1
    /\ \E w \in Pods : w # i /\ wpc[w] = "check"

\* pods whose input slot is filled
Holding == {w \in Pods : m_val[w] # None}

\* candidates of the current (or last) pipe() call never passed to callback
Unreported == {c \in RunCandidates : cb[c] = 0}

(***************************************************************************)
(* C29: with strict = true and N >= 1 worker threads (N pods, built for    *)
(* the constructor argument N + 1), when pipe() has returned the number of *)
(* input() calls of the run is the number of callback invocations plus     *)
(* N - 1: N - 1 candidates were drawn and checked and not passed to        *)
(* callback, the pod whose pair was accepted is empty, and each of the     *)
(* other N - 1 pods holds one of these candidates with its result.         *)
(***************************************************************************)
C29_StrictLeftovers ==
    (Returned /\ strict /\ m_pods >= 1) =>
        /\ nin - run_in = RunCallbacks + m_pods - 1
        /\ Cardinality(Unreported) = m_pods - 1
        /\ Cardinality(Holding) = m_pods - 1
        /\ Unreported = {m_val[w] : w \in Holding}
        /\ \A w \in Holding :
               /\ m_res[w] = m_cf(m_val[w])
               /\ chk[m_val[w]] = 1
               /\ ~m_busy[w]

\* a strict run of two pods has returned after two callback invocations,
\* and the other pod holds a pair
C29_Witness ==
    /\ Returned /\ strict
    /\ m_pods = 2
    /\ loop_cb = 2
    /\ Cardinality(Holding) = 1

\* the pair the coordinator is about to pass to callback was drawn in the
\* current pipe() call and holds the result of check on its input
OwnPairAtCallback ==
    /\ pc \in {"callback", "drain_callback"} =>
          /\ m_val[i] # None
          /\ m_val[i] \in RunCandidates
          /\ m_res[i] = m_cf(m_val[i])
          /\ chk[m_val[i]] = 1
    /\ pc = "s_callback" =>
          /\ input \in RunCandidates
          /\ result = m_cf(input)
          /\ chk[input] = 1

(***************************************************************************)
(* C30: in any sequence of pipe() calls on one pipeline, every pair passed *)
(* to callback during a call was drawn from input() and checked during     *)
(* that same call; a candidate drawn in an earlier call, reported or left  *)
(* in a pod by a strict call, is neither checked nor passed to callback    *)
(* again.                                                                  *)
(***************************************************************************)
C30_ReuseReportsOwnPairs ==
    /\ [](OwnPairAtCallback)
    /\ [][\A c \in Candidates :
             /\ cb'[c] # cb[c] =>
                   c \in RunCandidates /\ run_in' = run_in /\ chk[c] = 1
             /\ chk'[c] # chk[c] =>
                   c \in RunCandidates /\ run_in' = run_in /\ pc # "idle"]_vars

\* the second call on a pipeline of two pods is about to report a pair,
\* and a candidate of the first, strict, call was never reported
C30_Witness ==
    /\ runs = 1
    /\ m_pods = 2
    /\ pc = "callback"
    /\ \E c \in 1..run_in : cb[c] = 0 /\ chk[c] = 1

====
